---- MODULE Spec2Model ----
(***************************************************************************)
(* Model of the cache store of genveje.dk                                  *)
(* (src/app/lib/cache-manager.server.ts).                                  *)
(*                                                                         *)
(* The module runs on one event loop.  Every `await` of the source is a    *)
(* suspension point, so each action below is one run-to-completion piece   *)
(* of a function: from the point a call (or the continuation of an await)  *)
(* starts running to the next await or to the return.                      *)
(*                                                                         *)
(* Time is counted in days: one tick of `now` is 24 hours of Date.now().   *)
(* The keyv store is taken to be reliable (cache.get / cache.set never     *)
(* reject); an expired entry is never returned by cache.get.               *)
(* No caller of the repository passes customTTL, so every entry is written *)
(* with CACHE_TTL (`ttl || CACHE_TTL`).                                    *)
(* metrics.fetchTimes is kept as the number of samples held per key.       *)
(* Every operation reads and writes only the key it is given, so one key   *)
(* of CACHE_KEYS is modelled.  fetchFn resolves with one of FetchResults   *)
(* or rejects; the values cached are catalogs, which are truthy.           *)
(***************************************************************************)
EXTENDS Integers, Sequences, FiniteSets, TLC

----------------------------------------------------------------------------
(* Bounds of the model                                                     *)

\* number of call slots: calls that can be in progress at the same time
NumProcs == 2
\* total number of calls issued over a behaviour
MaxCalls == 2
\* last day the clock reaches
MaxTime == 1

----------------------------------------------------------------------------
(* Program constants                                                       *)

CACHE_VERSION == "2"
\* 48 hours, in days
CACHE_TTL == 2
\* 24 hours, in days
STALE_THRESHOLD == 1
\* length of the rolling window of fetch durations
FETCH_TIMES_KEPT == 10

CACHE_KEYS == {"partnerads-data"}

Procs == 1..NumProcs

Undefined == "undefined"
FetchError == "error"
NoProc == 0

\* a version written by an earlier build, and the marker of a raw value
\* stored without the VersionedData wrapper
OLD_VERSION == "1"
NoVersion == "none"

\* what a fetchFn can resolve with, and what the store holds at start
FetchResults == {"d1", "d2"}
OldData == "d0"
Data == FetchResults \cup {OldData}

VARIABLES
    store,             \* the keyv store: key -> entry or NoEntry
    now,               \* Date.now()
    inFlightRequests,  \* key -> slot whose fetchPromise is registered, or NoProc
    refreshLocks,      \* set of keys
    metrics,           \* hits, misses, refreshes, errors, lastRefresh, fetchTimes
    calls,             \* slot -> the call running in it
    bg,                \* task slot -> a refreshInBackground task
    fetchCount,        \* key -> number of fetchFn invocations so far
    bgStarted,         \* key -> number of background refreshes that fetched
    bgFailed,          \* key -> number of background refreshes whose fetch failed
    nCalls             \* number of calls issued one by one so far

\* the refresh scheduler (src/app/lib/cron-scheduler.server.ts), in hours
VARIABLES
    isInitialized,        \* isInitialized
    cronTask,             \* hours until the daily task fires, or NoTask
    retryTimeout,         \* the handle held in retryTimeout, or NoTimeout
    pendingTimeouts,      \* the setTimeout timers that have not fired yet
    consecutiveFailures,  \* consecutiveFailures
    running,              \* source -> executeRefresh runs awaiting Promise.all
    stopped,              \* stopCronJobs was called and initializeCronJobs
                          \* has not been since
    capReached,           \* MAX_CONSECUTIVE_RETRIES was reached and no cron
                          \* or manual run has started since
    lastRun               \* source and outcome of the run that ended last

\* the catalog merger (src/app/lib/affiliate-merger.server.ts)
VARIABLES
    partneradsData,       \* first argument of mergeAffiliateData
    adtractionData,       \* second argument of mergeAffiliateData
    mergeArgs,            \* the two arguments as the last call received them
    merged,               \* what the last call returned
    mergedBefore,         \* what the call before the last returned
    mergedAt,             \* Date.now() during the last call
    nMerges,              \* number of calls made on these arguments
    mergedSwapped,        \* what the last call with the two arguments
                          \* exchanged returned
    nSwapped              \* number of calls made with the arguments exchanged

\* generateCategoryId (src/app/lib/types.ts)
VARIABLES
    categoryName,         \* the category name whose id is asked for
    idsReturned           \* the calls made so far: name, source, id returned

\* fetchWithRetry (src/unnamed/part_008)
VARIABLES
    retryArgs,            \* maxRetries and initialDelay of the call
    retryPc,              \* where the call stands
    attempt,              \* the loop variable
    lastError,            \* lastError
    invocations,          \* number of times fetchFn has been invoked
    attemptLog,           \* how each invocation of fetchFn ended
    delays,               \* the delays slept so far, in milliseconds
    retryOutcome          \* what the call resolved or rejected with

\* the request loader (src/unnamed/part_004, routes/_index.tsx)
VARIABLES
    loaderPc,             \* where the loader stands
    sourceResults,        \* key -> what fetchSourceWithFallback has come to
    lastResort,           \* key -> what the catch block read from the cache
    loaderReturn          \* what the loader returned or threw

\* the source fetchers (src/unnamed/part_006 and src/unnamed/part_005)
VARIABLES
    apiResponse,          \* the network and the records its API answered with
    fetcherReturn         \* what the fetcher's fetch function returned

cacheVars == <<store, now, inFlightRequests, refreshLocks, metrics, calls, bg,
               fetchCount, bgStarted, bgFailed, nCalls>>

schedVars == <<isInitialized, cronTask, retryTimeout, pendingTimeouts,
               consecutiveFailures, running, stopped, capReached,
               lastRun>>

mergeVars == <<partneradsData, adtractionData, mergeArgs, merged,
               mergedBefore, mergedAt, nMerges, mergedSwapped, nSwapped>>

idVars == <<categoryName, idsReturned>>

retryVars == <<retryArgs, retryPc, attempt, lastError, invocations,
               attemptLog, delays, retryOutcome>>

\* what no operation of the cache manager, of the scheduler, of the merger
\* touches
loaderVars == <<loaderPc, sourceResults, lastResort, loaderReturn>>

fetcherVars == <<apiResponse, fetcherReturn>>

nonCacheVars ==
    <<schedVars, mergeVars, idVars, retryVars, loaderVars, fetcherVars>>
nonSchedVars ==
    <<cacheVars, mergeVars, idVars, retryVars, loaderVars, fetcherVars>>
nonMergeVars ==
    <<cacheVars, schedVars, idVars, retryVars, loaderVars, fetcherVars>>
nonIdVars ==
    <<cacheVars, schedVars, mergeVars, retryVars, loaderVars, fetcherVars>>
nonRetryVars ==
    <<cacheVars, schedVars, mergeVars, idVars, loaderVars, fetcherVars>>

nonFetcherVars ==
    <<cacheVars, schedVars, mergeVars, idVars, retryVars, loaderVars>>

vars ==
    <<cacheVars, schedVars, mergeVars, idVars, retryVars, loaderVars,
      fetcherVars>>

----------------------------------------------------------------------------
(* The scheduler and the merger before anything has run                    *)

Sources == {"cron", "retry", "manual"}

\* cronTask = null, retryTimeout = null
NoTask == -1
NoTimeout == 0

\* lines 6-16: the scheduler's module state when the module is loaded
SchedulerAtLoad ==
    /\ isInitialized = FALSE
    /\ cronTask = NoTask
    /\ retryTimeout = NoTimeout
    /\ pendingTimeouts = {}
    /\ consecutiveFailures = 0
    /\ running = [src \in Sources |-> 0]
    /\ stopped = FALSE
    /\ capReached = FALSE
    /\ lastRun = [source |-> "none", ok |-> TRUE]

\* a null argument, and the absence of a result
NullData == [isNull |-> TRUE, categories |-> <<>>, lastUpdated |-> 0]

NothingMerged ==
    /\ partneradsData = NullData
    /\ adtractionData = NullData
    /\ mergeArgs = <<NullData, NullData>>
    /\ merged = NullData
    /\ mergedBefore = NullData
    /\ mergedAt = 0
    /\ nMerges = 0
    /\ mergedSwapped = NullData
    /\ nSwapped = 0

\* no category id has been asked for
NoIdsAsked ==
    /\ categoryName = <<>>
    /\ idsReturned = {}

\* lastError = null, and the absence of an outcome
NoError == [isError |-> FALSE, message |-> "null", attempt |-> 0]
NoOutcome == [ok |-> FALSE, value |-> "none", error |-> NoError]

\* fetchWithRetry has not been called
NotRetrying ==
    /\ retryArgs = [maxRetries |-> 1, initialDelay |-> 0]
    /\ retryPc = "idle"
    /\ attempt = 0
    /\ lastError = NoError
    /\ invocations = 0
    /\ attemptLog = <<>>
    /\ delays = <<>>
    /\ retryOutcome = NoOutcome

\* CACHE_KEYS.PARTNERADS and CACHE_KEYS.ADTRACTION
SOURCE_KEYS == {"partnerads-data", "adtraction-data"}

\* fetchSourceWithFallback has not settled; nothing read; nothing returned
Pending == [state |-> "pending", data |-> Undefined, threw |-> FALSE]
Unread == "unread"
NoReturn == [status |-> 0, source |-> "none",
             data |-> [k \in SOURCE_KEYS |-> Undefined], error |-> "null"]

\* no request is being served
LoaderIdle ==
    /\ loaderPc = "idle"
    /\ sourceResults = [k \in SOURCE_KEYS |-> Pending]
    /\ lastResort = [k \in SOURCE_KEYS |-> Unread]
    /\ loaderReturn = NoReturn

\* no API has answered; no fetch function has returned
NoResponse == [source |-> "none", records |-> <<>>]
NoCatalog == [status |-> "none", categories |-> <<>>, lastUpdated |-> 0]
FetchersIdle == apiResponse = NoResponse /\ fetcherReturn = NoCatalog

\* the functions that keep no state of their own, before any call
UtilitiesIdle == NoIdsAsked /\ NotRetrying /\ LoaderIdle /\ FetchersIdle

----------------------------------------------------------------------------
(* The keyv store                                                          *)

\* what cache.set(key, versionedData, ttl) writes at time t
Entry(version, data, timestamp, expires) ==
    [version |-> version, data |-> data, timestamp |-> timestamp,
     expires |-> expires]

\* the `undefined` that cache.get gives for a key without a live entry
NoEntry == Entry(Undefined, Undefined, 0, 0)

\* cache.get of a store built without `ttl`
keyvGetNoExpiry(k) == store[k]

\* cache.get(key): an entry past its expiry is not returned
keyvGet(k) ==
    IF store[k] # NoEntry /\ now > store[k].expires
    THEN NoEntry
    ELSE store[k]

\* 'version' in cached && 'data' in cached
IsVersioned(cached) == cached.version # NoVersion

\* getCached without the version comparison of line 237
getCachedAnyVersion(cached) ==
    IF cached = NoEntry THEN Undefined
    ELSE IF IsVersioned(cached) THEN cached.data ELSE Undefined

getCached(cached) ==
    IF cached = NoEntry THEN Undefined
    ELSE IF IsVersioned(cached)
         THEN IF cached.version = CACHE_VERSION THEN cached.data ELSE Undefined
         ELSE Undefined

\* getCachedIgnoreVersion that gives nothing for an entry of another version
getCachedCurrentVersionOnly(cached) == getCached(cached)

getCachedIgnoreVersion(cached) ==
    IF cached = NoEntry THEN Undefined ELSE cached.data

\* the `undefined` of getCachedMetadata
NoMetadata == [version |-> Undefined, timestamp |-> 0]

\* getCachedMetadata that gives nothing for an entry of another version
getCachedMetadataCurrentVersion(cached) ==
    IF cached = NoEntry THEN NoMetadata
    ELSE IF cached.version = CACHE_VERSION
         THEN [version |-> cached.version, timestamp |-> cached.timestamp]
         ELSE NoMetadata

getCachedMetadata(cached) ==
    IF cached = NoEntry THEN NoMetadata
    ELSE IF IsVersioned(cached)
         THEN [version |-> cached.version, timestamp |-> cached.timestamp]
         ELSE NoMetadata

\* setCache writing the data without the VersionedData wrapper
setCacheUnversioned(data) ==
    Entry(NoVersion, data, now, now + CACHE_TTL)

\* setCache up to its await: the wrapper built at time `now`
setCache(data) ==
    Entry(CACHE_VERSION, data, now, now + CACHE_TTL)

----------------------------------------------------------------------------
(* The states of a key, as the cache entry's lifecycle defines them        *)

Age(k) == now - store[k].timestamp

\* an entry older than the hard TTL, or no entry at all
ExpiredOrEmpty(k) == store[k] = NoEntry \/ Age(k) > CACHE_TTL

\* an unexpired entry written with the current version
ValidEntry(k) ==
    /\ ~ExpiredOrEmpty(k)
    /\ store[k].version = CACHE_VERSION

\* an unexpired versioned entry (of any version) past the staleness threshold
StaleEntry(k) ==
    /\ ~ExpiredOrEmpty(k)
    /\ store[k].version \in {CACHE_VERSION, OLD_VERSION}
    /\ Age(k) > STALE_THRESHOLD

----------------------------------------------------------------------------
(* Initial state                                                           *)

IdleCall ==
    [op |-> "none", pc |-> "idle", key |-> "partnerads-data", ret |-> Undefined,
     staleData |-> Undefined, pending |-> NoEntry, awaits |-> NoProc,
     fetched |-> FALSE, waited |-> FALSE, cold |-> FALSE]

IdleBg == [pc |-> "idle", key |-> "partnerads-data", pending |-> NoEntry]

\* the SQLite file survives restarts: at start a key is absent, or holds an
\* entry written 0 or 2 days ago by this build or by one with an older
\* CACHE_VERSION, or a raw value from before versioning
InitEntries ==
    {NoEntry}
    \cup {Entry(v, OldData, 0 - age, 0 - age + CACHE_TTL) :
            v \in {CACHE_VERSION, OLD_VERSION}, age \in {0, 2}}
    \cup {Entry(NoVersion, OldData, 0, CACHE_TTL)}

InitMetrics ==
    [hits |-> 0, misses |-> 0, refreshes |-> 0, errors |-> 0,
     lastRefresh |-> [k \in {} |-> 0],
     fetchTimes |-> [k \in CACHE_KEYS |-> 0]]

InitRest ==
    /\ inFlightRequests = [k \in CACHE_KEYS |-> NoProc]
    /\ refreshLocks = {}
    /\ metrics = InitMetrics
    /\ calls = [p \in Procs |-> IdleCall]
    /\ bg = [p \in Procs |-> IdleBg]
    /\ fetchCount = [k \in CACHE_KEYS |-> 0]
    /\ bgStarted = [k \in CACHE_KEYS |-> 0]
    /\ bgFailed = [k \in CACHE_KEYS |-> 0]
    /\ nCalls = 0

Init ==
    /\ store \in [CACHE_KEYS -> InitEntries]
    /\ now = 0
    /\ InitRest
    /\ SchedulerAtLoad
    /\ NothingMerged
    /\ UtilitiesIdle

----------------------------------------------------------------------------
(* Issuing a call                                                          *)

\* slots are interchangeable: a new call takes the lowest free one
Free(p) == calls[p].pc \in {"idle", "done"}

CanStart(p) ==
    /\ Free(p)
    /\ \A q \in Procs : q < p => ~Free(q)
    /\ nCalls < MaxCalls

\* a refreshInBackground task takes the lowest idle task slot
BgSlot(b) ==
    /\ bg[b].pc = "idle"
    /\ \A q \in Procs : q < b => bg[q].pc # "idle"

NewCall(op, k, pc) ==
    [IdleCall EXCEPT !.op = op, !.key = k, !.pc = pc]

\* call c returns (or throws) v: its locals are gone, the slot keeps what
\* the call was and what became of it
Return(c, v) ==
    [IdleCall EXCEPT !.op = c.op, !.key = c.key, !.pc = "done", !.ret = v,
                     !.fetched = c.fetched, !.waited = c.waited]

\* the promise of slot p settles with v: p and every deduplicated caller
\* holding that promise get v
Settle(p, v) ==
    calls' = [q \in Procs |->
                IF q = p \/ (calls[q].pc = "gcf_await" /\ calls[q].awaits = p)
                THEN Return(calls[q], v)
                ELSE calls[q]]

----------------------------------------------------------------------------
(* getCachedOrFetch                                                        *)

\* lines 107-114: the deduplication check, then `await getCached(key)`.
\* `cold` records that the call was issued with no fetch in flight and no
\* valid entry cached.
EnterGetCachedOrFetch(c, k) ==
    IF inFlightRequests[k] # NoProc
    THEN [c EXCEPT !.pc = "gcf_await", !.awaits = inFlightRequests[k]]
    ELSE [c EXCEPT !.pc = "gcf_read", !.cold = ~ValidEntry(k)]

\* a hit that is not counted
CountHitForgotten(m) == m

\* line 116 and line 122
CountHit(m) == [m EXCEPT !.hits = @ + 1]

CountMiss(m) == [m EXCEPT !.misses = @ + 1]

\* the marker left in place
ClearInFlightForgotten(k) == inFlightRequests

\* line 150: inFlightRequests.delete(key)
ClearInFlight(k) == [inFlightRequests EXCEPT ![k] = NoProc]

CallGetCachedOrFetch(p, k) ==
    /\ CanStart(p)
    /\ calls' = [calls EXCEPT ![p] =
                    EnterGetCachedOrFetch(NewCall("getCachedOrFetch", k, "idle"), k)]
    /\ nCalls' = nCalls + 1
    /\ UNCHANGED <<store, now, inFlightRequests, refreshLocks, metrics, bg,
                   fetchCount, bgStarted, bgFailed>>
    /\ UNCHANGED nonCacheVars

\* lines 114-155: getCached has resolved; hit, or miss and start of the fetch
GetCachedOrFetchRead(p) ==
    /\ calls[p].pc = "gcf_read"
    /\ LET k == calls[p].key
           cached == getCached(keyvGet(k))
       IN IF cached # Undefined
          THEN /\ metrics' = CountHit(metrics)
               /\ calls' = [calls EXCEPT ![p] = Return(calls[p], cached)]
               /\ UNCHANGED <<inFlightRequests, fetchCount>>
          ELSE /\ metrics' = CountMiss(metrics)
               /\ fetchCount' = [fetchCount EXCEPT ![k] = @ + 1]
               /\ inFlightRequests' = [inFlightRequests EXCEPT ![k] = p]
               /\ calls' = [calls EXCEPT ![p].pc = "gcf_fetch",
                                         ![p].fetched = TRUE]
    /\ UNCHANGED <<store, now, refreshLocks, bg, bgStarted, bgFailed, nCalls>>
    /\ UNCHANGED nonCacheVars

\* lines 128-141: fetchFn resolved with d; fetch time recorded, setCache called
GetCachedOrFetchResolve(p, d) ==
    /\ calls[p].pc = "gcf_fetch"
    /\ LET k == calls[p].key
       IN metrics' = [metrics EXCEPT !.fetchTimes[k] =
                        IF @ < FETCH_TIMES_KEPT THEN @ + 1 ELSE @]
    /\ calls' = [calls EXCEPT ![p].pc = "gcf_store", ![p].pending = setCache(d)]
    /\ UNCHANGED <<store, now, inFlightRequests, refreshLocks, bg, fetchCount,
                   bgStarted, bgFailed, nCalls>>
    /\ UNCHANGED nonCacheVars

\* lines 145-151: fetchFn rejected
GetCachedOrFetchReject(p) ==
    /\ calls[p].pc = "gcf_fetch"
    /\ metrics' = [metrics EXCEPT !.errors = @ + 1]
    /\ inFlightRequests' = ClearInFlight(calls[p].key)
    /\ Settle(p, FetchError)
    /\ UNCHANGED <<store, now, refreshLocks, bg, fetchCount, bgStarted,
                   bgFailed, nCalls>>
    /\ UNCHANGED nonCacheVars

\* lines 141-151: cache.set has written; return data, finally
GetCachedOrFetchStored(p) ==
    /\ calls[p].pc = "gcf_store"
    /\ store' = [store EXCEPT ![calls[p].key] = calls[p].pending]
    /\ inFlightRequests' = ClearInFlight(calls[p].key)
    /\ Settle(p, calls[p].pending.data)
    /\ UNCHANGED <<now, refreshLocks, metrics, bg, fetchCount, bgStarted,
                   bgFailed, nCalls>>
    /\ UNCHANGED nonCacheVars

----------------------------------------------------------------------------
(* getCachedOrFetchStale and refreshInBackground                           *)

\* a refresh that leaves the metrics as they were
CountRefreshForgotten(m, k) == m

\* lines 352-353 (and 214-215): metrics.refreshes++, lastRefresh[key] = now
CountRefresh(m, k) ==
    [m EXCEPT !.refreshes = @ + 1,
              !.lastRefresh = [j \in DOMAIN @ \cup {k} |->
                                 IF j = k THEN now ELSE @[j]]]

\* line 171: `await getCachedIgnoreVersion(key)`
CallGetCachedOrFetchStale(p, k) ==
    /\ CanStart(p)
    /\ calls' = [calls EXCEPT ![p] = NewCall("getCachedOrFetchStale", k, "stale_read1")]
    /\ nCalls' = nCalls + 1
    /\ UNCHANGED <<store, now, inFlightRequests, refreshLocks, metrics, bg,
                   fetchCount, bgStarted, bgFailed>>
    /\ UNCHANGED nonCacheVars

\* lines 171-172: staleData read, `await getCachedMetadata(key)`
GetCachedOrFetchStaleRead1(p) ==
    /\ calls[p].pc = "stale_read1"
    /\ calls' = [calls EXCEPT
                   ![p].pc = "stale_read2",
                   ![p].staleData = getCachedIgnoreVersion(keyvGet(calls[p].key))]
    /\ UNCHANGED <<store, now, inFlightRequests, refreshLocks, metrics, bg,
                   fetchCount, bgStarted, bgFailed, nCalls>>
    /\ UNCHANGED nonCacheVars

\* lines 175-177: staleData && cachedMetadata && age > STALE_THRESHOLD
ServeStale(staleData, cachedMetadata) ==
    /\ staleData # Undefined
    /\ cachedMetadata # NoMetadata
    /\ now - cachedMetadata.timestamp > STALE_THRESHOLD

\* refreshInBackground without the check of line 202
RefreshNeverSkipped(k) == FALSE

\* line 202: refreshInBackground returns at once when the lock is held
RefreshSkipped(k) == k \in refreshLocks

\* lines 172-190: metadata read; serve stale and start refreshInBackground
\* (lines 202-210, up to its `await fetchFn()`), or go on to getCachedOrFetch
GetCachedOrFetchStaleRead2(p) ==
    /\ calls[p].pc = "stale_read2"
    /\ LET k == calls[p].key
           cachedMetadata == getCachedMetadata(keyvGet(k))
       IN IF ServeStale(calls[p].staleData, cachedMetadata)
          THEN /\ calls' = [calls EXCEPT ![p] = Return(calls[p], calls[p].staleData)]
               /\ IF RefreshSkipped(k)
                  THEN UNCHANGED <<refreshLocks, bg, fetchCount, bgStarted>>
                  ELSE /\ refreshLocks' = refreshLocks \cup {k}
                       /\ \E b \in Procs :
                            /\ BgSlot(b)
                            /\ bg' = [bg EXCEPT ![b] =
                                        [IdleBg EXCEPT !.pc = "fetch", !.key = k]]
                       /\ fetchCount' = [fetchCount EXCEPT ![k] = @ + 1]
                       /\ bgStarted' = [bgStarted EXCEPT ![k] = @ + 1]
          ELSE /\ calls' = [calls EXCEPT ![p] = EnterGetCachedOrFetch(calls[p], k)]
               /\ UNCHANGED <<refreshLocks, bg, fetchCount, bgStarted>>
    /\ UNCHANGED <<store, now, inFlightRequests, metrics, bgFailed, nCalls>>
    /\ UNCHANGED nonCacheVars

\* a `finally` that leaves the lock as it is
refreshLocksKept(k) == refreshLocks

\* lines 218-220 and 357-359: finally { refreshLocks.delete(key) }
refreshLocksDelete(k) == refreshLocks \ {k}

\* lines 210-213: fetchFn resolved with d, setCache called
RefreshInBackgroundResolve(p, d) ==
    /\ bg[p].pc = "fetch"
    /\ bg' = [bg EXCEPT ![p].pc = "store", ![p].pending = setCache(d)]
    /\ UNCHANGED <<store, now, inFlightRequests, refreshLocks, metrics, calls,
                   fetchCount, bgStarted, bgFailed, nCalls>>
    /\ UNCHANGED nonCacheVars

\* lines 218-220 and 181-183: fetchFn rejected; finally, and the error is
\* logged by the .catch of getCachedOrFetchStale
RefreshInBackgroundReject(p) ==
    /\ bg[p].pc = "fetch"
    /\ refreshLocks' = refreshLocksDelete(bg[p].key)
    /\ bgFailed' = [bgFailed EXCEPT ![bg[p].key] = @ + 1]
    /\ bg' = [bg EXCEPT ![p] = IdleBg]
    /\ UNCHANGED <<store, now, inFlightRequests, metrics, calls, fetchCount,
                   bgStarted, nCalls>>
    /\ UNCHANGED nonCacheVars

\* lines 213-220: cache.set has written; metrics, finally
RefreshInBackgroundStored(p) ==
    /\ bg[p].pc = "store"
    /\ LET k == bg[p].key
       IN /\ store' = [store EXCEPT ![k] = bg[p].pending]
          /\ metrics' = CountRefresh(metrics, k)
          /\ refreshLocks' = refreshLocksDelete(k)
    /\ bg' = [bg EXCEPT ![p] = IdleBg]
    /\ UNCHANGED <<now, inFlightRequests, calls, fetchCount, bgStarted,
                   bgFailed, nCalls>>
    /\ UNCHANGED nonCacheVars

----------------------------------------------------------------------------
(* forceRefreshCache and warmupCache                                       *)

\* a waiter that never takes what is cached
NeverCached(cached) == FALSE

\* line 339: if (cached)
HasCached(cached) == cached # Undefined

\* lines 344-348: take the lock and call fetchFn
AcquireAndFetch(p, c, k) ==
    /\ refreshLocks' = refreshLocks \cup {k}
    /\ fetchCount' = [fetchCount EXCEPT ![k] = @ + 1]
    /\ calls' = [calls EXCEPT ![p] = [c EXCEPT !.pc = "force_fetch",
                                               !.fetched = TRUE]]

\* lines 331-348: lock held: start polling; lock free: acquire and fetch
CallForceRefreshCache(p, k) ==
    /\ CanStart(p)
    /\ nCalls' = nCalls + 1
    /\ IF k \in refreshLocks
       THEN /\ calls' = [calls EXCEPT ![p] =
                           [NewCall("forceRefreshCache", k, "force_poll")
                              EXCEPT !.waited = TRUE]]
            /\ UNCHANGED <<refreshLocks, fetchCount>>
       ELSE AcquireAndFetch(p, NewCall("forceRefreshCache", k, "idle"), k)
    /\ UNCHANGED <<store, now, inFlightRequests, metrics, bg, bgStarted,
                   bgFailed>>
    /\ UNCHANGED nonCacheVars

\* a warm-up that refreshes whatever is cached
WarmupAlways(cached) == TRUE

\* line 371: if (!cached)
WarmupNeeded(cached) == cached = Undefined

\* line 370: `await getCached(key)`
CallWarmupCache(p, k) ==
    /\ CanStart(p)
    /\ calls' = [calls EXCEPT ![p] = NewCall("warmupCache", k, "warm_read")]
    /\ nCalls' = nCalls + 1
    /\ UNCHANGED <<store, now, inFlightRequests, refreshLocks, metrics, bg,
                   fetchCount, bgStarted, bgFailed>>
    /\ UNCHANGED nonCacheVars

\* lines 370-377: getCached resolved: nothing cached: forceRefreshCache up to
\* its first await (lines 331-348); otherwise return what is cached
WarmupCacheRead(p) ==
    /\ calls[p].pc = "warm_read"
    /\ LET k == calls[p].key
           cached == getCached(keyvGet(k))
       IN IF WarmupNeeded(cached)
          THEN IF k \in refreshLocks
               THEN /\ calls' = [calls EXCEPT ![p].pc = "force_poll",
                                              ![p].waited = TRUE]
                    /\ UNCHANGED <<refreshLocks, fetchCount>>
               ELSE AcquireAndFetch(p, calls[p], k)
          ELSE /\ calls' = [calls EXCEPT ![p] = Return(calls[p], cached)]
               /\ UNCHANGED <<refreshLocks, fetchCount>>
    /\ UNCHANGED <<store, now, inFlightRequests, metrics, bg, bgStarted,
                   bgFailed, nCalls>>
    /\ UNCHANGED nonCacheVars

\* lines 334-338: a 100 ms timer fires and the lock is free: leave the loop,
\* `await getCached(key)`.  (A timer that fires while the lock is held
\* changes nothing.)
ForceRefreshCachePollExit(p) ==
    /\ calls[p].pc = "force_poll"
    /\ calls[p].key \notin refreshLocks
    /\ calls' = [calls EXCEPT ![p].pc = "force_read"]
    /\ UNCHANGED <<store, now, inFlightRequests, refreshLocks, metrics, bg,
                   fetchCount, bgStarted, bgFailed, nCalls>>
    /\ UNCHANGED nonCacheVars

\* lines 338-348: getCached resolved: return what is cached, or fall through
\* to the refresh
ForceRefreshCacheRead(p) ==
    /\ calls[p].pc = "force_read"
    /\ LET k == calls[p].key
           cached == getCached(keyvGet(k))
       IN IF HasCached(cached)
          THEN /\ calls' = [calls EXCEPT ![p] = Return(calls[p], cached)]
               /\ UNCHANGED <<refreshLocks, fetchCount>>
          ELSE AcquireAndFetch(p, calls[p], k)
    /\ UNCHANGED <<store, now, inFlightRequests, metrics, bg, bgStarted,
                   bgFailed, nCalls>>
    /\ UNCHANGED nonCacheVars

\* lines 348-351: fetchFn resolved with d, setCache called
ForceRefreshCacheResolve(p, d) ==
    /\ calls[p].pc = "force_fetch"
    /\ calls' = [calls EXCEPT ![p].pc = "force_store", ![p].pending = setCache(d)]
    /\ UNCHANGED <<store, now, inFlightRequests, refreshLocks, metrics, bg,
                   fetchCount, bgStarted, bgFailed, nCalls>>
    /\ UNCHANGED nonCacheVars

\* lines 357-359: fetchFn rejected; finally, the error goes to the caller
ForceRefreshCacheReject(p) ==
    /\ calls[p].pc = "force_fetch"
    /\ refreshLocks' = refreshLocksDelete(calls[p].key)
    /\ calls' = [calls EXCEPT ![p] = Return(calls[p], FetchError)]
    /\ UNCHANGED <<store, now, inFlightRequests, metrics, bg, fetchCount,
                   bgStarted, bgFailed, nCalls>>
    /\ UNCHANGED nonCacheVars

\* lines 351-359: cache.set has written; metrics, return data, finally
ForceRefreshCacheStored(p) ==
    /\ calls[p].pc = "force_store"
    /\ LET k == calls[p].key
       IN /\ store' = [store EXCEPT ![k] = calls[p].pending]
          /\ metrics' = CountRefresh(metrics, k)
          /\ refreshLocks' = refreshLocksDelete(k)
    /\ calls' = [calls EXCEPT ![p] = Return(calls[p], calls[p].pending.data)]
    /\ UNCHANGED <<now, inFlightRequests, bg, fetchCount, bgStarted, bgFailed,
                   nCalls>>
    /\ UNCHANGED nonCacheVars

----------------------------------------------------------------------------
(* getCached and getCachedIgnoreVersion called on their own                *)

\* line 228 / line 304: `await cache.get(key)`
CallGetCached(p, k) ==
    /\ CanStart(p)
    /\ calls' = [calls EXCEPT ![p] = NewCall("getCached", k, "get_read")]
    /\ nCalls' = nCalls + 1
    /\ UNCHANGED <<store, now, inFlightRequests, refreshLocks, metrics, bg,
                   fetchCount, bgStarted, bgFailed>>
    /\ UNCHANGED nonCacheVars

CallGetCachedIgnoreVersion(p, k) ==
    /\ CanStart(p)
    /\ calls' = [calls EXCEPT ![p] = NewCall("getCachedIgnoreVersion", k, "get_read")]
    /\ nCalls' = nCalls + 1
    /\ UNCHANGED <<store, now, inFlightRequests, refreshLocks, metrics, bg,
                   fetchCount, bgStarted, bgFailed>>
    /\ UNCHANGED nonCacheVars

\* lines 230-247 / lines 306-319
GetCachedRead(p) ==
    /\ calls[p].pc = "get_read"
    /\ calls' = [calls EXCEPT ![p] =
                   Return(calls[p],
                          IF calls[p].op = "getCached"
                          THEN getCached(keyvGet(calls[p].key))
                          ELSE getCachedIgnoreVersion(keyvGet(calls[p].key)))]
    /\ UNCHANGED <<store, now, inFlightRequests, refreshLocks, metrics, bg,
                   fetchCount, bgStarted, bgFailed, nCalls>>
    /\ UNCHANGED nonCacheVars

----------------------------------------------------------------------------
(* Clock                                                                   *)

Tick ==
    /\ now < MaxTime
    /\ now' = now + 1
    /\ UNCHANGED <<store, inFlightRequests, refreshLocks, metrics, calls, bg,
                   fetchCount, bgStarted, bgFailed, nCalls>>
    /\ UNCHANGED nonCacheVars

----------------------------------------------------------------------------

Next ==
    \/ \E p \in Procs, k \in CACHE_KEYS : CallGetCachedOrFetch(p, k)
    \/ \E p \in Procs : GetCachedOrFetchRead(p)
    \/ \E p \in Procs, d \in FetchResults : GetCachedOrFetchResolve(p, d)
    \/ \E p \in Procs : GetCachedOrFetchReject(p)
    \/ \E p \in Procs : GetCachedOrFetchStored(p)
    \/ \E p \in Procs, k \in CACHE_KEYS : CallGetCachedOrFetchStale(p, k)
    \/ \E p \in Procs : GetCachedOrFetchStaleRead1(p)
    \/ \E p \in Procs : GetCachedOrFetchStaleRead2(p)
    \/ \E p \in Procs, d \in FetchResults : RefreshInBackgroundResolve(p, d)
    \/ \E p \in Procs : RefreshInBackgroundReject(p)
    \/ \E p \in Procs : RefreshInBackgroundStored(p)
    \/ \E p \in Procs, k \in CACHE_KEYS : CallForceRefreshCache(p, k)
    \/ \E p \in Procs : ForceRefreshCachePollExit(p)
    \/ \E p \in Procs : ForceRefreshCacheRead(p)
    \/ \E p \in Procs, d \in FetchResults : ForceRefreshCacheResolve(p, d)
    \/ \E p \in Procs : ForceRefreshCacheReject(p)
    \/ \E p \in Procs : ForceRefreshCacheStored(p)
    \/ \E p \in Procs, k \in CACHE_KEYS : CallWarmupCache(p, k)
    \/ \E p \in Procs : WarmupCacheRead(p)
    \/ \E p \in Procs, k \in CACHE_KEYS : CallGetCached(p, k)
    \/ \E p \in Procs, k \in CACHE_KEYS : CallGetCachedIgnoreVersion(p, k)
    \/ \E p \in Procs : GetCachedRead(p)
    \/ Tick

Spec == Init /\ [][Next]_vars

----------------------------------------------------------------------------
(* A burst of getCachedOrFetchStale calls on a stale key: every call is    *)
(* issued before any of them has returned, nothing else touches the key    *)
(* and the clock stands still at the day of the burst.                     *)

InitStale ==
    /\ now \in 0..MaxTime
    /\ store \in [CACHE_KEYS ->
                    {Entry(v, OldData, now - (STALE_THRESHOLD + 1),
                           now - (STALE_THRESHOLD + 1) + CACHE_TTL) :
                       v \in {CACHE_VERSION, OLD_VERSION}}]
    /\ InitRest
    /\ SchedulerAtLoad
    /\ NothingMerged
    /\ UtilitiesIdle

CallConcurrentStale(p, k) ==
    /\ \A q \in Procs : calls[q].pc # "done"
    /\ CallGetCachedOrFetchStale(p, k)

NextStale ==
    \/ \E p \in Procs, k \in CACHE_KEYS : CallConcurrentStale(p, k)
    \/ \E p \in Procs : GetCachedOrFetchStaleRead1(p)
    \/ \E p \in Procs : GetCachedOrFetchStaleRead2(p)
    \/ \E p \in Procs, d \in FetchResults : RefreshInBackgroundResolve(p, d)
    \/ \E p \in Procs : RefreshInBackgroundReject(p)
    \/ \E p \in Procs : RefreshInBackgroundStored(p)
    \/ \E p \in Procs : GetCachedOrFetchRead(p)

SpecStale == InitStale /\ [][NextStale]_vars

----------------------------------------------------------------------------
(* Request deduplication and the one-fetch-at-a-time guarantee             *)

ActiveCall(p) == ~Free(p)

\* number of fetchFn invocations for key k that have not settled yet
FetchesInProgress(k) ==
    Cardinality({p \in Procs : calls[p].key = k
                               /\ calls[p].pc \in {"gcf_fetch", "force_fetch"}})
    + Cardinality({b \in Procs : bg[b].key = k /\ bg[b].pc = "fetch"})

\* C1: getCachedOrFetch calls of one key that are in progress together, each
\* issued while the key had no valid entry and no fetch in flight, share one
\* fetch: no two of them have both invoked fetchFn.
C1_ConcurrentCallsShareOneFetch ==
    \A p, q \in Procs :
        (/\ p # q
         /\ ActiveCall(p) /\ ActiveCall(q)
         /\ calls[p].op = "getCachedOrFetch" /\ calls[q].op = "getCachedOrFetch"
         /\ calls[p].key = calls[q].key
         /\ calls[p].cold /\ calls[q].cold)
        => ~(calls[p].fetched /\ calls[q].fetched)

\* C2: for every key at most one fetchFn invocation is in progress at any
\* moment, whichever of getCachedOrFetch, forceRefreshCache and the
\* background refresh started it.
C2_AtMostOneFetchInProgress ==
    \A k \in CACHE_KEYS : FetchesInProgress(k) <= 1

----------------------------------------------------------------------------
(* forceRefreshCache called while the key's lock is held                   *)

\* the step in which call p moves on from the await it is suspended at
Leaves(p, pc) == calls[p].pc = pc /\ calls'[p].pc # pc

----------------------------------------------------------------------------
(* Stale-while-revalidate                                                  *)

\* C4: a getCachedOrFetchStale call that has read a value and finds the
\* key's entry older than the staleness threshold and not older than the TTL
\* returns the value it read in that same step, whether or not it starts a
\* background refresh; no step of a background refresh (its fetch resolving,
\* failing, or its write) touches a call, so a failure never reaches the
\* caller and the result does not depend on the refresh ending.
C4_StaleServedWithoutWaiting ==
    [][/\ \A p \in Procs :
            (/\ Leaves(p, "stale_read2")
             /\ StaleEntry(calls[p].key)
             /\ calls[p].staleData # Undefined)
            => /\ calls'[p].pc = "done"
               /\ calls'[p].ret = calls[p].staleData
               /\ calls'[p].ret \in Data
       /\ (\E b \in Procs : bg[b].pc # "idle" /\ bg'[b].pc # bg[b].pc)
            => calls' = calls
    ]_vars

\* a call has returned the stale value while the refresh it started is
\* still fetching
C4_ReturnedWhileRefreshing ==
    \E p, b \in Procs :
        /\ calls[p].pc = "done"
        /\ calls[p].op = "getCachedOrFetchStale"
        /\ calls[p].ret = OldData
        /\ bg[b].pc = "fetch"
        /\ bg[b].key = calls[p].key
        /\ bgStarted[calls[p].key] = 1
        /\ nCalls = 1

\* number of background refreshes of key k in progress
RefreshesInProgress(k) ==
    Cardinality({b \in Procs : bg[b].key = k /\ bg[b].pc # "idle"})

\* C5 as stated: the calls of the burst start exactly one background
\* refresh between them (never a second one).
C5_ExactlyOneRefresh ==
    \A k \in CACHE_KEYS : bgStarted[k] <= 1

\* C5 as amended: during the burst at most one background refresh of the
\* key is in progress, the lock is held exactly while it is, the only
\* fetches are those of the refreshes, the first call to return has started
\* one, and a further refresh is started only after an earlier one failed:
\* refreshes started <= 1 + refreshes failed.
C5_OneRefreshAtATime ==
    \A k \in CACHE_KEYS :
        /\ RefreshesInProgress(k) <= 1
        /\ (k \in refreshLocks) <=> (RefreshesInProgress(k) = 1)
        /\ fetchCount[k] = bgStarted[k]
        /\ bgStarted[k] <= 1 + bgFailed[k]
        /\ (\E p \in Procs : calls[p].pc = "done" /\ calls[p].key = k)
             => bgStarted[k] >= 1

\* two calls of the burst have returned the stale value and one refresh,
\* still running, was started between them
C5_TwoCallsOneRefresh ==
    \E p, q \in Procs :
        /\ p # q
        /\ calls[p].pc = "done" /\ calls[q].pc = "done"
        /\ calls[p].key = calls[q].key
        /\ calls[p].ret = OldData /\ calls[q].ret = OldData
        /\ bgStarted[calls[p].key] = 1
        /\ bgFailed[calls[p].key] = 0
        /\ calls[p].key \in refreshLocks

----------------------------------------------------------------------------
(* getCachedOrFetch: failure, versions, expiry, counters, results          *)

\* the fetchPromise of a getCachedOrFetch miss on key k is pending
FetchPromisePending(k) ==
    \E q \in Procs : calls[q].key = k /\ calls[q].pc \in {"gcf_fetch", "gcf_store"}

\* C6: the in-flight map holds a key only while the fetchPromise registered
\* for it is pending; when fetchFn fails the call and every caller
\* deduplicated onto its promise get the error, the error is counted and
\* the key leaves the map; a getCachedOrFetch issued while no fetchPromise
\* of the key is pending is not deduplicated but goes on to read the cache.
C6_FailurePropagatesMarkerCleared ==
    /\ [](\A k \in CACHE_KEYS :
            inFlightRequests[k] # NoProc
            => /\ calls[inFlightRequests[k]].key = k
               /\ calls[inFlightRequests[k]].pc \in {"gcf_fetch", "gcf_store"})
    /\ [][\A p \in Procs :
            LET k == calls'[p].key
            IN /\ (calls[p].pc = "gcf_fetch" /\ calls'[p].pc = "done")
                  => /\ calls'[p].ret = FetchError
                     /\ \A q \in Procs :
                          (calls[q].pc = "gcf_await" /\ calls[q].awaits = p)
                          => (calls'[q].pc = "done" /\ calls'[q].ret = FetchError)
                     /\ inFlightRequests'[k] = NoProc
                     /\ metrics'.errors = metrics.errors + 1
               /\ (Free(p) /\ ~Free(p)' /\ calls'[p].op = "getCachedOrFetch"
                     /\ ~FetchPromisePending(k))
                  => calls'[p].pc = "gcf_read"
       ]_vars

\* one failed fetch has rejected two callers: its own and a deduplicated one
C6_BothCallersGotError ==
    \E p, q \in Procs :
        /\ p # q
        /\ calls[p].pc = "done" /\ calls[q].pc = "done"
        /\ calls[p].ret = FetchError /\ calls[q].ret = FetchError
        /\ calls[p].fetched /\ ~calls[q].fetched
        /\ metrics.errors = 1
        /\ fetchCount[calls[p].key] = 1
        /\ inFlightRequests[calls[p].key] = NoProc

\* C7: while a key holds an entry whose version is not the current one,
\* getCached returns undefined for it and getCachedOrFetch counts a miss
\* (not a hit) and invokes fetchFn.
C7_VersionMismatchIsMiss ==
    [][\A p \in Procs :
         LET k == calls[p].key
         IN (store[k] # NoEntry /\ store[k].version # CACHE_VERSION)
            => /\ (Leaves(p, "get_read") /\ calls[p].op = "getCached")
                  => (calls'[p].pc = "done" /\ calls'[p].ret = Undefined)
               /\ Leaves(p, "gcf_read")
                  => /\ calls'[p].pc = "gcf_fetch"
                     /\ metrics'.misses = metrics.misses + 1
                     /\ metrics'.hits = metrics.hits
                     /\ fetchCount' = [fetchCount EXCEPT ![k] = @ + 1]
    ]_vars

\* a getCachedOrFetch is refetching a key that holds a live old-version entry
C7_RefetchOverOldVersion ==
    \E p \in Procs :
        /\ calls[p].pc = "gcf_fetch"
        /\ calls[p].op = "getCachedOrFetch"
        /\ store[calls[p].key].version = OLD_VERSION
        /\ ~ExpiredOrEmpty(calls[p].key)
        /\ metrics.misses = 1 /\ metrics.hits = 0

C9_OneHitOrOneMissPerRead ==
    [][IF \E p \in Procs : Leaves(p, "gcf_read")
       THEN \E p \in Procs :
              /\ Leaves(p, "gcf_read")
              /\ IF ValidEntry(calls[p].key)
                 THEN /\ metrics'.hits = metrics.hits + 1
                      /\ metrics'.misses = metrics.misses
                 ELSE /\ metrics'.misses = metrics.misses + 1
                      /\ metrics'.hits = metrics.hits
       ELSE /\ metrics'.hits = metrics.hits
            /\ metrics'.misses = metrics.misses
    ]_vars

\* two calls were made, one missed and fetched, one hit
C9_OneMissOneHit ==
    /\ nCalls = 2
    /\ \A p \in Procs : Free(p)
    /\ metrics.hits = 1
    /\ metrics.misses = 1
    /\ \A k \in CACHE_KEYS : fetchCount[k] = 1
    /\ \E p \in Procs : calls[p].op = "getCachedOrFetch" /\ calls[p].ret \in FetchResults

\* C10: when its cache read comes back, getCachedOrFetch on a key with a
\* valid entry returns that entry's data, invoking no fetchFn and writing
\* nothing; on a key without one it invokes fetchFn once; the data fetchFn
\* resolves with is what the call stores under the key, as an entry of the
\* current version stamped with the time of setCache and expiring CACHE_TTL
\* later, and what it returns.
C10_HitReturnsCachedMissStoresFetched ==
    [][\A p \in Procs :
         LET k == calls[p].key
         IN /\ Leaves(p, "gcf_read")
               => IF ValidEntry(k)
                  THEN /\ calls'[p].pc = "done"
                       /\ calls'[p].ret = store[k].data
                       /\ fetchCount' = fetchCount
                       /\ store' = store
                  ELSE /\ calls'[p].pc = "gcf_fetch"
                       /\ fetchCount' = [fetchCount EXCEPT ![k] = @ + 1]
                       /\ store' = store
            /\ (Leaves(p, "gcf_fetch") /\ calls'[p].pc # "done")
               => /\ calls'[p].pc = "gcf_store"
                  /\ calls'[p].pending.data \in FetchResults
                  /\ calls'[p].pending.timestamp = now
            /\ Leaves(p, "gcf_store")
               => /\ calls'[p].pc = "done"
                  /\ calls'[p].ret = calls[p].pending.data
                  /\ store'[k] = Entry(CACHE_VERSION, calls'[p].ret,
                                       calls[p].pending.timestamp,
                                       calls[p].pending.timestamp + CACHE_TTL)
    ]_vars

\* getCachedOrFetch has fetched and returned d, and a getCached that read
\* the key afterwards returned the same d
C10_GetCachedSeesFetched ==
    \E p, q \in Procs :
        /\ calls[p].pc = "done" /\ calls[q].pc = "done"
        /\ calls[p].op = "getCachedOrFetch" /\ calls[p].fetched
        /\ calls[q].op = "getCached"
        /\ calls[p].ret \in FetchResults
        /\ calls[q].ret = calls[p].ret
        /\ store[calls[p].key].data = calls[p].ret

----------------------------------------------------------------------------
(* forceRefreshCache with the lock free, and warmupCache                   *)

\* C11: a forceRefreshCache call issued while the key's lock is free takes
\* the lock and invokes fetchFn once in that step, whether or not a valid
\* entry is cached, and invokes it in no later step; the data fetchFn
\* resolves with is wrapped as an entry of the current version stamped with
\* the time of setCache; when the write completes the key's entry is that
\* wrapper and nothing of the old entry, refreshes is one higher,
\* lastRefresh of the key is the time of the step, the call returns the
\* fetched data and the lock is free; if fetchFn rejects the call throws and
\* the lock is free.
C11_UncontendedForceRefresh ==
    [][\A p \in Procs :
         LET k == calls'[p].key
         IN /\ (Free(p) /\ ~Free(p)' /\ calls'[p].op = "forceRefreshCache"
                  /\ k \notin refreshLocks)
               => /\ calls'[p].pc = "force_fetch"
                  /\ fetchCount' = [fetchCount EXCEPT ![k] = @ + 1]
                  /\ k \in refreshLocks'
                  /\ store' = store
            /\ (Leaves(p, "force_fetch") /\ calls'[p].pc # "done")
               => /\ calls'[p].pc = "force_store"
                  /\ calls'[p].pending.data \in FetchResults
                  /\ calls'[p].pending =
                        Entry(CACHE_VERSION, calls'[p].pending.data, now,
                              now + CACHE_TTL)
                  /\ fetchCount' = fetchCount
            /\ (Leaves(p, "force_fetch") /\ calls'[p].pc = "done")
               => /\ calls'[p].ret = FetchError
                  /\ k \notin refreshLocks'
                  /\ fetchCount' = fetchCount
            /\ Leaves(p, "force_store")
               => /\ calls'[p].pc = "done"
                  /\ calls'[p].ret = calls[p].pending.data
                  /\ store'[k] = calls[p].pending
                  /\ metrics'.refreshes = metrics.refreshes + 1
                  /\ k \in DOMAIN metrics'.lastRefresh
                  /\ metrics'.lastRefresh[k] = now
                  /\ k \notin refreshLocks'
                  /\ fetchCount' = fetchCount
    ]_vars

\* two calls were made one after the other; the second, a forceRefreshCache
\* issued over the valid entry the first had written, has fetched again and
\* returned what it stored
C11_RefreshedOverValidEntry ==
    /\ nCalls = 2
    /\ calls[1].pc = "done" /\ calls[2].pc = "idle"
    /\ calls[1].op = "forceRefreshCache"
    /\ calls[1].fetched /\ ~calls[1].waited
    /\ calls[1].ret \in FetchResults
    /\ store[calls[1].key].data = calls[1].ret
    /\ store[calls[1].key].version = CACHE_VERSION
    /\ fetchCount[calls[1].key] = 2
    /\ metrics.refreshes = 2
    /\ metrics.lastRefresh[calls[1].key] = now
    /\ refreshLocks = {}

\* C12: when its cache read comes back, warmupCache on a key with a valid
\* entry returns that entry's data and changes nothing: no fetchFn is
\* invoked, the store, the lock and the metrics are as before; on a key
\* without a valid entry it goes into forceRefreshCache (fetching at once if
\* the lock is free).  A warmupCache call invokes fetchFn only in a step
\* taken while the key has no valid entry.
C12_WarmupOnlyWhenNothingValid ==
    [][\A p \in Procs :
         LET k == calls[p].key
         IN /\ Leaves(p, "warm_read")
               => IF ValidEntry(k)
                  THEN /\ calls'[p].pc = "done"
                       /\ calls'[p].ret = store[k].data
                       /\ ~calls'[p].fetched
                       /\ fetchCount' = fetchCount
                       /\ store' = store
                       /\ refreshLocks' = refreshLocks
                       /\ metrics' = metrics
                  ELSE /\ calls'[p].pc \in {"force_fetch", "force_poll"}
                       /\ (k \notin refreshLocks)
                            => /\ calls'[p].pc = "force_fetch"
                               /\ fetchCount' = [fetchCount EXCEPT ![k] = @ + 1]
                       /\ store' = store
            /\ (calls[p].op = "warmupCache" /\ ActiveCall(p)
                  /\ ~calls[p].fetched /\ calls'[p].fetched)
               => ~ValidEntry(k)
    ]_vars

\* a first call has fetched and stored; a warmupCache issued afterwards has
\* returned the stored data without fetching
C12_WarmupWasNoOp ==
    /\ nCalls = 2
    /\ calls[1].pc = "done" /\ calls[2].pc = "idle"
    /\ calls[1].op = "warmupCache"
    /\ ~calls[1].fetched /\ ~calls[1].waited
    /\ calls[1].ret \in FetchResults
    /\ store[calls[1].key].data = calls[1].ret
    /\ fetchCount[calls[1].key] = 1
    /\ refreshLocks = {}

----------------------------------------------------------------------------
(* The refresh scheduler (src/app/lib/cron-scheduler.server.ts)            *)
(*                                                                         *)
(* Time is counted in hours.  A timer is due when its count of hours is 0  *)
(* and the clock does not advance past a due timer.  A run of              *)
(* executeRefresh awaits Promise.all of two forceRefreshCache calls, which *)
(* are specified above; the scheduler sees them only through that promise, *)
(* which resolves when both calls have resolved and rejects as soon as one *)
(* of them rejects, after any length of time.  lastRefreshAttempt and      *)
(* lastSuccessfulRefresh are written by a run and read only by             *)
(* getRefreshStatus; they decide nothing and are left out.                 *)

\* runs of executeRefresh that can be awaiting their refresh together
NumRuns == 2
\* timer handles that can be told apart at one time
NumTimers == 3

MAX_CONSECUTIVE_RETRIES == 5
\* delayMs, in hours
RETRY_DELAY_HOURS == 3
\* '0 3 * * *': once a day
CRON_PERIOD_HOURS == 24

TimerIds == 1..NumTimers

Timeout(id, dueIn) == [id |-> id, dueIn |-> dueIn]

InitCron ==
    /\ store = [k \in CACHE_KEYS |-> NoEntry]
    /\ now = 0
    /\ InitRest
    /\ SchedulerAtLoad
    /\ NothingMerged
    /\ UtilitiesIdle

RunsInProgress == running["cron"] + running["retry"] + running["manual"]

\* clearTimeout(handle): a timer that has fired or was cleared is not there
ClearTimeout(timeouts, handle) == {t \in timeouts : t.id # handle}

\* setTimeout: the handle returned is not that of any pending timer
NewTimeoutId(timeouts) ==
    CHOOSE id \in TimerIds :
        /\ \A t \in timeouts : t.id # id
        /\ \A j \in TimerIds : j < id => \E t \in timeouts : t.id = j

\* scheduleRetryIn3Hours that leaves an earlier timer in place
KeepExistingTimeout(timeouts, handle) == timeouts

\* lines 80-83: if (retryTimeout) { clearTimeout(retryTimeout); ... }
ClearExistingTimeout(timeouts, handle) ==
    IF handle # NoTimeout THEN ClearTimeout(timeouts, handle) ELSE timeouts

\* lines 78-101: scheduleRetryIn3Hours
scheduleRetryIn3Hours ==
    LET kept == ClearExistingTimeout(pendingTimeouts, retryTimeout)
        id == NewTimeoutId(kept)
    IN /\ \E j \in TimerIds : \A t \in kept : t.id # j
       /\ pendingTimeouts' = kept \cup {Timeout(id, RETRY_DELAY_HOURS)}
       /\ retryTimeout' = id

\* lines 23-35: executeRefresh up to `await Promise.all(...)`
executeRefreshStart(source) ==
    /\ RunsInProgress < NumRuns
    /\ running' = [running EXCEPT ![source] = @ + 1]

\* a success that leaves the failure count and the retry timer alone
KeepRetryState == UNCHANGED <<consecutiveFailures, retryTimeout, pendingTimeouts>>

\* lines 40-52: consecutiveFailures = 0; clear a pending retry
ResetRetryState ==
    /\ consecutiveFailures' = 0
    /\ IF retryTimeout # NoTimeout
       THEN /\ pendingTimeouts' = ClearTimeout(pendingTimeouts, retryTimeout)
            /\ retryTimeout' = NoTimeout
       ELSE UNCHANGED <<retryTimeout, pendingTimeouts>>

\* lines 37-52: Promise.all resolved
ExecuteRefreshResolve(source) ==
    /\ running[source] > 0
    /\ running' = [running EXCEPT ![source] = @ - 1]
    /\ ResetRetryState
    /\ lastRun' = [source |-> source, ok |-> TRUE]
    /\ UNCHANGED <<isInitialized, stopped, cronTask, capReached>>
    /\ UNCHANGED nonSchedVars

\* lines 53-72: Promise.all rejected.  The error is rethrown: the cron and
\* the retry callbacks swallow it, triggerManualRefresh passes it on.
ExecuteRefreshReject(source) ==
    /\ running[source] > 0
    /\ running' = [running EXCEPT ![source] = @ - 1]
    /\ IF consecutiveFailures + 1 < MAX_CONSECUTIVE_RETRIES
       THEN /\ consecutiveFailures' = consecutiveFailures + 1
            /\ scheduleRetryIn3Hours
            /\ UNCHANGED capReached
       ELSE /\ consecutiveFailures' = 0
            /\ capReached' = TRUE
            /\ UNCHANGED <<retryTimeout, pendingTimeouts>>
    /\ lastRun' = [source |-> source, ok |-> FALSE]
    /\ UNCHANGED <<isInitialized, stopped, cronTask>>
    /\ UNCHANGED nonSchedVars

\* lines 93-100: a retry timer fires and runs executeRefresh('retry');
\* retryTimeout keeps the handle of the timer that fired
RetryTimeoutFires(t) ==
    /\ t \in pendingTimeouts
    /\ t.dueIn = 0
    /\ pendingTimeouts' = pendingTimeouts \ {t}
    /\ executeRefreshStart("retry")
    /\ UNCHANGED <<isInitialized, stopped, cronTask, retryTimeout, consecutiveFailures,
                   capReached, lastRun>>
    /\ UNCHANGED nonSchedVars

\* lines 128-135: the daily task fires and runs executeRefresh('cron')
CronTaskFires ==
    /\ cronTask = 0
    /\ cronTask' = CRON_PERIOD_HOURS
    /\ executeRefreshStart("cron")
    /\ capReached' = FALSE
    /\ UNCHANGED <<isInitialized, stopped, retryTimeout, pendingTimeouts,
                   consecutiveFailures, lastRun>>
    /\ UNCHANGED nonSchedVars

\* lines 161-164: triggerManualRefresh
TriggerManualRefresh ==
    /\ executeRefreshStart("manual")
    /\ capReached' = FALSE
    /\ UNCHANGED <<isInitialized, stopped, cronTask, retryTimeout, pendingTimeouts,
                   consecutiveFailures, lastRun>>
    /\ UNCHANGED nonSchedVars

\* lines 107-139: initializeCronJobs with cron enabled; the module can be
\* loaded at any hour of the day
InitializeCronJobs ==
    /\ ~isInitialized
    /\ isInitialized' = TRUE
    /\ stopped' = FALSE
    /\ cronTask' \in 1..CRON_PERIOD_HOURS
    /\ UNCHANGED <<retryTimeout, pendingTimeouts, consecutiveFailures, running,
                   capReached, lastRun>>
    /\ UNCHANGED nonSchedVars

\* lines 144-156: stopCronJobs
StopCronJobs ==
    /\ isInitialized
    /\ cronTask' = NoTask
    /\ pendingTimeouts' = ClearExistingTimeout(pendingTimeouts, retryTimeout)
    /\ retryTimeout' = NoTimeout
    /\ isInitialized' = FALSE
    /\ stopped' = TRUE
    /\ UNCHANGED <<consecutiveFailures, running, capReached, lastRun>>
    /\ UNCHANGED nonSchedVars

\* an hour passes: no timer is due
HourPasses ==
    /\ cronTask # 0
    /\ \A t \in pendingTimeouts : t.dueIn > 0
    /\ cronTask # NoTask \/ pendingTimeouts # {}
    /\ cronTask' = IF cronTask = NoTask THEN NoTask ELSE cronTask - 1
    /\ pendingTimeouts' = {Timeout(t.id, t.dueIn - 1) : t \in pendingTimeouts}
    /\ UNCHANGED <<isInitialized, stopped, retryTimeout, consecutiveFailures, running,
                   capReached, lastRun>>
    /\ UNCHANGED nonSchedVars

NextCron ==
    \/ InitializeCronJobs
    \/ StopCronJobs
    \/ CronTaskFires
    \/ TriggerManualRefresh
    \/ \E t \in pendingTimeouts : RetryTimeoutFires(t)
    \/ \E source \in Sources : ExecuteRefreshResolve(source)
    \/ \E source \in Sources : ExecuteRefreshReject(source)
    \/ HourPasses

SpecCron == InitCron /\ [][NextCron]_vars

----------------------------------------------------------------------------
(* Retries of the scheduler                                                *)

\* a run of executeRefresh ends in this step
RunEnds == RunsInProgress' < RunsInProgress

\* C13: at no time is more than one retry timer pending; a run of any
\* source that fails and brings the failure count to less than
\* MAX_CONSECUTIVE_RETRIES leaves exactly one timer pending, the one
\* retryTimeout holds, due RETRY_DELAY_HOURS hours later; a retry run starts
\* only in the step in which a due timer fires.
C13_OneRetryPendingAfterFailure ==
    /\ [](Cardinality(pendingTimeouts) <= 1)
    /\ [][((RunEnds /\ ~lastRun'.ok
              /\ consecutiveFailures + 1 < MAX_CONSECUTIVE_RETRIES)
            => (/\ lastRun'.source \in Sources
                /\ consecutiveFailures' = consecutiveFailures + 1
                /\ retryTimeout' # NoTimeout
                /\ pendingTimeouts' =
                      {Timeout(retryTimeout', RETRY_DELAY_HOURS)}))
           /\ ((running'["retry"] > running["retry"])
               => (\E t \in pendingTimeouts :
                     t.dueIn = 0 /\ pendingTimeouts' = pendingTimeouts \ {t}))
       ]_vars

\* the run started by a retry timer has failed in its turn: a new timer is
\* pending, three hours ahead
C13_RetryFailedAndRescheduled ==
    /\ lastRun = [source |-> "retry", ok |-> FALSE]
    /\ consecutiveFailures = 2
    /\ pendingTimeouts = {Timeout(retryTimeout, RETRY_DELAY_HOURS)}
    /\ RunsInProgress = 0

\* C14: the failure that brings the count to MAX_CONSECUTIVE_RETRIES
\* schedules nothing and resets the count to 0, and from then until a cron
\* (or manual) run starts no retry run starts.
C14_NoRetryRunAfterCap ==
    [][((RunEnds /\ ~lastRun'.ok
          /\ consecutiveFailures + 1 = MAX_CONSECUTIVE_RETRIES)
        => (/\ consecutiveFailures' = 0
            /\ pendingTimeouts' = pendingTimeouts))
       /\ (capReached => running'["retry"] <= running["retry"])
    ]_vars

\* C15: a run of any source that succeeds leaves no retry timer pending,
\* retryTimeout empty and the failure count at 0.
C15_SuccessClearsRetry ==
    [][(RunEnds /\ lastRun'.ok)
       => /\ lastRun'.source \in Sources
          /\ pendingTimeouts' = {}
          /\ retryTimeout' = NoTimeout
          /\ consecutiveFailures' = 0
    ]_vars

\* the run started by a retry timer has succeeded: nothing is pending and
\* the count is back to 0
C15_RetrySucceeded ==
    /\ lastRun = [source |-> "retry", ok |-> TRUE]
    /\ consecutiveFailures = 0
    /\ pendingTimeouts = {}
    /\ retryTimeout = NoTimeout
    /\ RunsInProgress = 0

----------------------------------------------------------------------------
(* The catalog merger (src/app/lib/affiliate-merger.server.ts)             *)
(*                                                                         *)
(* A string is the sequence of its characters.  A merchant carries the     *)
(* fields the merger reads (programurl) and those that tell it apart       *)
(* (programid, source).  mergeAffiliateData is synchronous: one call is    *)
(* one step.  The arguments are objects the caller keeps: what a call does *)
(* to them is part of the step.                                            *)

\* categories in one catalog
MaxCategories == 2
\* calls of mergeAffiliateData made on the same two arguments
MaxMerges == 2
\* calls of mergeAffiliateData made on them in the other order
MaxSwapped == 1

\* String.prototype.toLowerCase on the letters A-Z
UpperToLower ==
    ("A" :> "a") @@ ("B" :> "b") @@ ("C" :> "c") @@ ("D" :> "d") @@
    ("E" :> "e") @@ ("F" :> "f") @@ ("G" :> "g") @@ ("H" :> "h") @@
    ("I" :> "i") @@ ("J" :> "j") @@ ("K" :> "k") @@ ("L" :> "l") @@
    ("M" :> "m") @@ ("N" :> "n") @@ ("O" :> "o") @@ ("P" :> "p") @@
    ("Q" :> "q") @@ ("R" :> "r") @@ ("S" :> "s") @@ ("T" :> "t") @@
    ("U" :> "u") @@ ("V" :> "v") @@ ("W" :> "w") @@ ("X" :> "x") @@
    ("Y" :> "y") @@ ("Z" :> "z")

toLowerCase(str) ==
    [i \in 1..Len(str) |->
        IF str[i] \in DOMAIN UpperToLower THEN UpperToLower[str[i]] ELSE str[i]]

WhiteSpace == {" "}

RECURSIVE trimStart(_)
trimStart(str) ==
    IF str # <<>> /\ Head(str) \in WhiteSpace THEN trimStart(Tail(str)) ELSE str

RECURSIVE trimEnd(_)
trimEnd(str) ==
    IF str # <<>> /\ str[Len(str)] \in WhiteSpace
    THEN trimEnd(SubSeq(str, 1, Len(str) - 1))
    ELSE str

\* String.prototype.trim
trim(str) == trimEnd(trimStart(str))

StartsWith(str, prefix) ==
    /\ Len(str) >= Len(prefix)
    /\ SubSeq(str, 1, Len(prefix)) = prefix

DropPrefix(str, prefix) == SubSeq(str, Len(prefix) + 1, Len(str))

\* .replace(/\/$/, '')
stripTrailingSlash(str) ==
    IF str # <<>> /\ str[Len(str)] = "/"
    THEN SubSeq(str, 1, Len(str) - 1)
    ELSE str

HTTP == <<"h", "t", "t", "p", ":", "/", "/">>
HTTPS == <<"h", "t", "t", "p", "s", ":", "/", "/">>
WWW == <<"w", "w", "w", ".">>

\* the optional group (www\.)? of the pattern below
stripWww(str) ==
    IF StartsWith(str, WWW) THEN DropPrefix(str, WWW) ELSE str

\* .replace(/^https?:\/\/(www\.)?/, ''): without a protocol nothing matches
stripProtocol(str) ==
    IF StartsWith(str, HTTPS) THEN stripWww(DropPrefix(str, HTTPS))
    ELSE IF StartsWith(str, HTTP) THEN stripWww(DropPrefix(str, HTTP))
    ELSE str

\* lines 16-21
normalizeUrl(url) == stripProtocol(stripTrailingSlash(toLowerCase(url)))

Merchant(programid, programurl, source) ==
    [programid |-> programid, programurl |-> programurl, source |-> source]

Category(id, name, merchants) ==
    [id |-> id, name |-> name, merchants |-> merchants]

AffiliateData(categories, lastUpdated) ==
    [isNull |-> FALSE, categories |-> categories, lastUpdated |-> lastUpdated]

\* a key that is the name as written
categoryKeyExact(category) == category.name

\* lines 64 and 86: category.name.toLowerCase().trim()
categoryKey(category) == trim(toLowerCase(category.name))

HasKey(categoryMap, key) ==
    \E j \in 1..Len(categoryMap) : categoryMap[j].key = key

IndexOfKey(categoryMap, key) ==
    CHOOSE j \in 1..Len(categoryMap) : categoryMap[j].key = key

\* lines 67-79 (and 89-100): categoryMap keeps its entries in insertion
\* order.  A new entry takes id and name of the category and its merchants
\* array itself (source, idx: whose array it is); for a key already there
\* the category's merchants are pushed onto the entry's array.
AddCategory(categoryMap, category, source, idx) ==
    LET key == categoryKey(category)
    IN IF ~HasKey(categoryMap, key)
       THEN Append(categoryMap,
                   [key |-> key, id |-> category.id, name |-> category.name,
                    merchants |-> category.merchants,
                    source |-> source, idx |-> idx])
       ELSE [categoryMap EXCEPT ![IndexOfKey(categoryMap, key)].merchants =
                                    @ \o category.merchants]

\* lines 63-80 (and 85-101): for (const category of data.categories)
RECURSIVE AddCategories(_, _, _, _)
AddCategories(categoryMap, categories, source, idx) ==
    IF idx > Len(categories)
    THEN categoryMap
    ELSE AddCategories(AddCategory(categoryMap, categories[idx], source, idx),
                       categories, source, idx + 1)

\* lines 59-101: the first argument (partneradsData) first, then the second
\* (adtractionData); a null argument adds nothing.  An entry's source says
\* which of the two parameters its merchants array came from.
CategoryMap(a, b) ==
    AddCategories(AddCategories(<<>>, a.categories, "partnerads", 1),
                  b.categories, "adtraction", 1)

\* a test that lets every URL through
neverBlank(url) == FALSE

\* lines 120 and 130: !url || url.trim() === ''
isBlank(url) == url = <<>> \/ trim(url) = <<>>

\* a walk that takes every URL for new
neverSeen(seenUrls, normalizedUrl) == FALSE

\* line 137: seenUrls.has(normalizedUrl)
seenBefore(seenUrls, normalizedUrl) == normalizedUrl \in seenUrls

\* lines 110-151: the walk over category.merchants that builds
\* uniqueMerchants
RECURSIVE uniqueMerchants(_, _)
uniqueMerchants(merchants, seenUrls) ==
    IF merchants = <<>>
    THEN <<>>
    ELSE LET merchant == Head(merchants)
             merchantUrl == merchant.programurl
             normalizedUrl == normalizeUrl(merchantUrl)
         IN IF isBlank(merchantUrl)
            THEN uniqueMerchants(Tail(merchants), seenUrls)
            ELSE IF isBlank(normalizedUrl)
            THEN uniqueMerchants(Tail(merchants), seenUrls)
            ELSE IF ~seenBefore(seenUrls, normalizedUrl)
            THEN <<merchant>> \o uniqueMerchants(Tail(merchants),
                                                  seenUrls \cup {normalizedUrl})
            ELSE uniqueMerchants(Tail(merchants), seenUrls)

\* lines 110-151 for every entry of the map, as a list of categories
Deduplicated(categoryMap) ==
    [j \in 1..Len(categoryMap) |->
        Category(categoryMap[j].id, categoryMap[j].name,
                 uniqueMerchants(categoryMap[j].merchants, {}))]

\* line 159: cat.merchants.length > 0
hasMerchants(cat) == Len(cat.merchants) > 0

\* the categories left in the order of the map
insertionOrder(categories) == categories

\* line 160: .sort((a, b) => a.id - b.id); Array.prototype.sort is stable
RECURSIVE sortById(_)
sortById(categories) ==
    IF categories = <<>>
    THEN <<>>
    ELSE LET front == sortById(SubSeq(categories, 1, Len(categories) - 1))
             cat == categories[Len(categories)]
             pos == Cardinality({j \in 1..Len(front) : front[j].id <= cat.id})
         IN SubSeq(front, 1, pos) \o <<cat>> \o SubSeq(front, pos + 1, Len(front))

\* the earlier of two times
Min(x, y) == IF x <= y THEN x ELSE y

\* lines 176-180: Math.max
Max(x, y) == IF x >= y THEN x ELSE y

\* lines 36-183: the value returned
mergeAffiliateData(a, b) ==
    IF a.isNull /\ b.isNull
    THEN AffiliateData(<<>>, now)
    ELSE AffiliateData(
             sortById(SelectSeq(Deduplicated(CategoryMap(a, b)), hasMerchants)),
             Max(Max(a.lastUpdated, b.lastUpdated), now))

\* lines 69-78: an argument after the call: the merchants array of a
\* category that opened a map entry is the entry's array, so it holds
\* whatever was pushed onto the entry
ArgumentAfter(data, source, categoryMap) ==
    IF data.isNull
    THEN data
    ELSE [data EXCEPT !.categories =
            [i \in 1..Len(@) |->
                IF \E j \in 1..Len(categoryMap) :
                       categoryMap[j].source = source /\ categoryMap[j].idx = i
                THEN LET j == CHOOSE j \in 1..Len(categoryMap) :
                                 /\ categoryMap[j].source = source
                                 /\ categoryMap[j].idx = i
                     IN [@[i] EXCEPT !.merchants = categoryMap[j].merchants]
                ELSE @[i]]]

\* one call of mergeAffiliateData(partneradsData, adtractionData)
MergeAffiliateData ==
    /\ nMerges < MaxMerges
    /\ mergeArgs' = <<partneradsData, adtractionData>>
    /\ merged' = mergeAffiliateData(partneradsData, adtractionData)
    /\ mergedBefore' = merged
    /\ mergedAt' = now
    /\ LET categoryMap == CategoryMap(partneradsData, adtractionData)
       IN /\ partneradsData' =
                ArgumentAfter(partneradsData, "partnerads", categoryMap)
          /\ adtractionData' =
                ArgumentAfter(adtractionData, "adtraction", categoryMap)
    /\ nMerges' = nMerges + 1
    /\ UNCHANGED <<mergedSwapped, nSwapped>>
    /\ UNCHANGED nonMergeVars

\* one call of mergeAffiliateData(adtractionData, partneradsData): the
\* catalog of Adtraction is the first argument, that of Partner-ads the
\* second
MergeAffiliateDataSwapped ==
    /\ nSwapped < MaxSwapped
    /\ mergedSwapped' = mergeAffiliateData(adtractionData, partneradsData)
    /\ LET categoryMap == CategoryMap(adtractionData, partneradsData)
       IN /\ adtractionData' =
                ArgumentAfter(adtractionData, "partnerads", categoryMap)
          /\ partneradsData' =
                ArgumentAfter(partneradsData, "adtraction", categoryMap)
    /\ nSwapped' = nSwapped + 1
    /\ UNCHANGED <<mergeArgs, merged, mergedBefore, mergedAt, nMerges>>
    /\ UNCHANGED nonMergeVars

----------------------------------------------------------------------------
(* The catalogs handed to the merger                                       *)

URL_ZALANDO_FULL == <<"h", "t", "t", "p", "s", ":", "/", "/", "w", "w", "w", ".", "Z", "a", "l", "a", "n", "d", "o", ".", "d", "k", "/">>
URL_ZALANDO_HTTP == <<"h", "t", "t", "p", ":", "/", "/", "z", "a", "l", "a", "n", "d", "o", ".", "d", "k">>
URL_ZALANDO_BARE_WWW == <<"w", "w", "w", ".", "z", "a", "l", "a", "n", "d", "o", ".", "d", "k">>
URL_HM == <<"h", "t", "t", "p", "s", ":", "/", "/", "h", "m", ".", "c", "o", "m">>
URL_HM_UPPER == <<"H", "T", "T", "P", "S", ":", "/", "/", "H", "M", ".", "c", "o", "m", "/">>
URL_EMPTY == <<>>
URL_BLANK == <<" ">>
URL_ONLY_PREFIX == <<"h", "t", "t", "p", "s", ":", "/", "/", "w", "w", "w", ".">>

NAME_MODE == <<"M", "o", "d", "e">>
NAME_MODE_PADDED == <<" ", "m", "o", "d", "e", " ">>
NAME_MODE_UPPER == <<"M", "O", "D", "E">>
NAME_SPORT == <<"S", "p", "o", "r", "t">>

\* the categories a catalog is made of: id, name, and the clean URLs of its
\* merchants
CategoryPool ==
    { [id |-> 2, name |-> NAME_MODE,
       urls |-> <<URL_ZALANDO_FULL, URL_HM>>],
      [id |-> 2, name |-> NAME_MODE_PADDED,
       urls |-> <<URL_ZALANDO_HTTP, URL_BLANK>>],
      [id |-> 1, name |-> NAME_MODE_UPPER,
       urls |-> <<URL_ZALANDO_BARE_WWW>>],
      [id |-> 1, name |-> NAME_SPORT,
       urls |-> <<URL_ONLY_PREFIX, URL_EMPTY>>],
      [id |-> 2, name |-> NAME_SPORT,
       urls |-> <<URL_HM, URL_HM_UPPER>>] }

\* lastUpdated of a catalog: missing or 0, or later than any time of a merge
LastUpdatedValues == {0, MaxTime + 1}

SeqsUpTo(S, n) == UNION {[1..k -> S] : k \in 0..n}

\* a catalog of source `source` made of the pool categories ps; a merchant's
\* programid says where in the catalog it stands
Catalog(source, ps, lastUpdated) ==
    AffiliateData(
        [ci \in 1..Len(ps) |->
            Category(ps[ci].id, ps[ci].name,
                     [mi \in 1..Len(ps[ci].urls) |->
                        Merchant(<<source, ci, mi>>, ps[ci].urls[mi], source)])],
        lastUpdated)

Catalogs(source) ==
    {NullData}
    \cup {Catalog(source, ps, lastUpdated) :
            ps \in SeqsUpTo(CategoryPool, MaxCategories),
            lastUpdated \in LastUpdatedValues}

InitMerge ==
    /\ store = [k \in CACHE_KEYS |-> NoEntry]
    /\ now = 0
    /\ InitRest
    /\ SchedulerAtLoad
    /\ UtilitiesIdle
    /\ partneradsData \in Catalogs("partnerads")
    /\ adtractionData \in Catalogs("adtraction")
    /\ mergeArgs = <<NullData, NullData>>
    /\ merged = NullData
    /\ mergedBefore = NullData
    /\ mergedAt = 0
    /\ nMerges = 0
    /\ mergedSwapped = NullData
    /\ nSwapped = 0

\* the merger is called again and again on the two catalogs while the clock
\* runs
NextMerge ==
    \/ MergeAffiliateData
    \/ MergeAffiliateDataSwapped
    \/ Tick

SpecMerge == InitMerge /\ [][NextMerge]_vars

----------------------------------------------------------------------------
(* What a call of the merger returns, in terms of what it was given        *)

\* mergeAffiliateData has been called; mergeArgs and merged are those of
\* the last call
Called == nMerges > 0

\* the categories given, those of the first argument before those of the
\* second
InputCategories == mergeArgs[1].categories \o mergeArgs[2].categories

NormalizedName(name) == trim(toLowerCase(name))

\* the merchants given under the categories of one normalized name, in the
\* order given
RECURSIVE MerchantsNamed(_, _)
MerchantsNamed(categories, key) ==
    IF categories = <<>>
    THEN <<>>
    ELSE (IF NormalizedName(Head(categories).name) = key
          THEN Head(categories).merchants
          ELSE <<>>) \o MerchantsNamed(Tail(categories), key)

\* sub can be got from seq by leaving elements out
RECURSIVE IsSubSeq(_, _)
IsSubSeq(sub, seq) ==
    IF sub = <<>> THEN TRUE
    ELSE IF seq = <<>> THEN FALSE
    ELSE IF Head(sub) = Head(seq) THEN IsSubSeq(Tail(sub), Tail(seq))
    ELSE IsSubSeq(sub, Tail(seq))

\* the merchant has a URL that is not blank, before and after normalization
HasUrl(merchant) ==
    /\ merchant.programurl # <<>>
    /\ trim(merchant.programurl) # <<>>
    /\ trim(normalizeUrl(merchant.programurl)) # <<>>

OutputIndices == 1..Len(merged.categories)

\* C16: in every category returned no two merchants have the same
\* normalized URL, and each merchant kept is the first one, in the order
\* given (first argument before second), among the merchants given under
\* that category name whose normalized URL is the same.
C16_FirstSeenPerNormalizedUrl ==
    Called =>
    \A c \in OutputIndices :
        LET kept == merged.categories[c].merchants
            given == MerchantsNamed(InputCategories,
                                    NormalizedName(merged.categories[c].name))
        IN /\ \A i, j \in 1..Len(kept) :
                 i # j => normalizeUrl(kept[i].programurl)
                          # normalizeUrl(kept[j].programurl)
           /\ \A i \in 1..Len(kept) :
                 \E k \in 1..Len(given) :
                    /\ given[k] = kept[i]
                    /\ \A l \in 1..(k - 1) :
                          normalizeUrl(given[l].programurl)
                          # normalizeUrl(kept[i].programurl)

\* a Partner-ads merchant was kept and an Adtraction merchant of the same
\* category, written differently but with the same normalized URL, was
\* dropped
C16_LaterDuplicateDropped ==
    /\ Called
    /\ \E c \in OutputIndices :
         LET kept == merged.categories[c].merchants
             given == MerchantsNamed(InputCategories,
                                     NormalizedName(merged.categories[c].name))
         IN \E i \in 1..Len(kept), k \in 1..Len(given) :
               /\ kept[i].source = "partnerads"
               /\ given[k].source = "adtraction"
               /\ given[k].programurl # kept[i].programurl
               /\ normalizeUrl(given[k].programurl)
                  = normalizeUrl(kept[i].programurl)
               /\ \A j \in 1..Len(kept) : kept[j] # given[k]

\* C17: no two categories returned have the same normalized name; a
\* category returned has id and name of the first category given under its
\* normalized name, and its merchants are merchants given under that name,
\* in the order given (first argument before second); every URL given under
\* a normalized name is found, normalized, in the category returned for
\* that name.
C17_CategoriesCombinedByName ==
    Called =>
    /\ \A c, d \in OutputIndices :
          c # d => NormalizedName(merged.categories[c].name)
                   # NormalizedName(merged.categories[d].name)
    /\ \A c \in OutputIndices :
          LET cat == merged.categories[c]
              key == NormalizedName(cat.name)
              first == CHOOSE i \in 1..Len(InputCategories) :
                         /\ NormalizedName(InputCategories[i].name) = key
                         /\ \A j \in 1..(i - 1) :
                               NormalizedName(InputCategories[j].name) # key
          IN /\ \E i \in 1..Len(InputCategories) :
                   NormalizedName(InputCategories[i].name) = key
             /\ cat.id = InputCategories[first].id
             /\ cat.name = InputCategories[first].name
             /\ IsSubSeq(cat.merchants, MerchantsNamed(InputCategories, key))
    /\ \A i \in 1..Len(InputCategories) :
          \A m \in 1..Len(InputCategories[i].merchants) :
             LET merchant == InputCategories[i].merchants[m]
                 key == NormalizedName(InputCategories[i].name)
             IN HasUrl(merchant)
                => \E c \in OutputIndices :
                      /\ NormalizedName(merged.categories[c].name) = key
                      /\ \E k \in 1..Len(merged.categories[c].merchants) :
                            normalizeUrl(merged.categories[c].merchants[k].programurl)
                            = normalizeUrl(merchant.programurl)

\* two categories given under names that differ as written came back as
\* one, a Partner-ads merchant before an Adtraction merchant, next to a
\* category of another name
C17_TwoSourcesOneCategory ==
    /\ Called
    /\ Len(merged.categories) = 2
    /\ \E c \in OutputIndices :
         LET cat == merged.categories[c]
         IN /\ cat.name = NAME_MODE
            /\ \E i \in 1..Len(mergeArgs[2].categories) :
                  mergeArgs[2].categories[i].name = NAME_MODE_PADDED
            /\ \E i, j \in 1..Len(cat.merchants) :
                  /\ i < j
                  /\ cat.merchants[i].source = "partnerads"
                  /\ cat.merchants[j].source = "adtraction"

\* the normalization as described: lower-case, strip one trailing slash,
\* strip a leading http:// or https:// if there is one, strip a leading
\* www. if there is one
DescribedNormalForm(url) ==
    LET lower == stripTrailingSlash(toLowerCase(url))
        noProtocol == IF StartsWith(lower, HTTPS) THEN DropPrefix(lower, HTTPS)
                      ELSE IF StartsWith(lower, HTTP) THEN DropPrefix(lower, HTTP)
                      ELSE lower
    IN IF StartsWith(noProtocol, WWW) THEN DropPrefix(noProtocol, WWW)
       ELSE noProtocol

\* C18: URLs that differ only in letter case, in one trailing slash, in the
\* protocol or in the www. prefix are one merchant: no category returned
\* holds two merchants whose URLs agree once case, trailing slash, protocol
\* and www. are taken away.
C18_EquivalentUrlsCollapse ==
    Called =>
    \A c \in OutputIndices :
        LET kept == merged.categories[c].merchants
        IN \A i, j \in 1..Len(kept) :
              i # j => DescribedNormalForm(kept[i].programurl)
                       # DescribedNormalForm(kept[j].programurl)

\* C19: no merchant returned has a URL that is empty or blank, as written
\* or once normalized; every category returned has a merchant; a normalized
\* name under which no merchant with a URL was given has no category in the
\* result, and one under which such a merchant was given has one, holding
\* that merchant's normalized URL.
C19_NoBlankUrlsNoEmptyCategories ==
    Called =>
    /\ \A c \in OutputIndices :
          /\ Len(merged.categories[c].merchants) > 0
          /\ \A k \in 1..Len(merged.categories[c].merchants) :
                HasUrl(merged.categories[c].merchants[k])
    /\ \A i \in 1..Len(InputCategories) :
          LET key == NormalizedName(InputCategories[i].name)
              given == MerchantsNamed(InputCategories, key)
          IN IF \E k \in 1..Len(given) : HasUrl(given[k])
             THEN \A k \in 1..Len(given) :
                    HasUrl(given[k])
                    => \E c \in OutputIndices :
                          /\ NormalizedName(merged.categories[c].name) = key
                          /\ \E l \in 1..Len(merged.categories[c].merchants) :
                                normalizeUrl(merged.categories[c].merchants[l].programurl)
                                = normalizeUrl(given[k].programurl)
             ELSE \A c \in OutputIndices :
                    NormalizedName(merged.categories[c].name) # key

\* a category holding only a URL that is empty and one that is empty once
\* normalized was given and is not in the result; a category holding a
\* blank URL next to a good one came back with the good one alone
C19_UrlLessCategoryPruned ==
    /\ Called
    /\ \E i \in 1..Len(InputCategories) :
         /\ InputCategories[i].name = NAME_SPORT
         /\ Len(InputCategories[i].merchants) = 2
         /\ InputCategories[i].merchants[1].programurl = URL_ONLY_PREFIX
         /\ InputCategories[i].merchants[2].programurl = URL_EMPTY
    /\ \A c \in OutputIndices :
         NormalizedName(merged.categories[c].name) # NormalizedName(NAME_SPORT)
    /\ \E i \in 1..Len(InputCategories) :
         /\ InputCategories[i].name = NAME_MODE_PADDED
         /\ InputCategories[i].merchants[2].programurl = URL_BLANK
    /\ Len(merged.categories) = 1
    /\ Len(merged.categories[1].merchants) = 1
    /\ merged.categories[1].merchants[1].programurl = URL_ZALANDO_HTTP

\* C20: the categories returned are in ascending order of id.
C20_SortedById ==
    Called =>
    \A c, d \in OutputIndices :
        c < d => merged.categories[c].id <= merged.categories[d].id

\* the second argument was null and the first had its categories in
\* descending order of id; both came back, in ascending order
C20_UnsortedInputSorted ==
    /\ Called
    /\ mergeArgs[2].isNull
    /\ Len(mergeArgs[1].categories) = 2
    /\ mergeArgs[1].categories[1].id > mergeArgs[1].categories[2].id
    /\ Len(merged.categories) = 2
    /\ merged.categories[1].id < merged.categories[2].id
    /\ merged.categories[1].name = mergeArgs[1].categories[2].name

\* C21: lastUpdated of the catalog returned is the latest of the first
\* argument's lastUpdated (0 for null), the second argument's (0 for null)
\* and the time of the merge: it is one of the three and not before any of
\* them.
C21_LastUpdatedIsLatest ==
    Called =>
    /\ merged.lastUpdated \in {mergeArgs[1].lastUpdated,
                               mergeArgs[2].lastUpdated, mergedAt}
    /\ merged.lastUpdated >= mergeArgs[1].lastUpdated
    /\ merged.lastUpdated >= mergeArgs[2].lastUpdated
    /\ merged.lastUpdated >= mergedAt

\* the first argument was dated after the time of the merge, the second was
\* null, and the result took the first argument's date
C21_InputNewerThanMerge ==
    /\ Called
    /\ ~mergeArgs[1].isNull
    /\ mergeArgs[2].isNull
    /\ mergeArgs[1].lastUpdated > mergedAt
    /\ merged.lastUpdated = mergeArgs[1].lastUpdated
    /\ Len(merged.categories) > 0

\* C22: a call leaves its two arguments as they were: after it, the
\* category lists and every category's merchant list of both catalogs are
\* those that were passed.
C22_ArgumentsUntouched ==
    Called =>
    /\ partneradsData = mergeArgs[1]
    /\ adtractionData = mergeArgs[2]

\* C23 (as stated): a call on the same two catalogs returns what the call
\* before it returned: the same categories, the same merchants in the same
\* order, the same lastUpdated.
C23_SameOutputEachCall ==
    nMerges >= 2 => merged = mergedBefore

\* C23: a call on the same two catalogs returns the categories the call
\* before it returned, with the same merchants in the same order; its
\* lastUpdated is not before that of the call before, and where the two
\* differ it is the time of the later call.
C23_SameCategoriesEachCall ==
    nMerges >= 2 =>
    /\ merged.categories = mergedBefore.categories
    /\ merged.lastUpdated >= mergedBefore.lastUpdated
    /\ (merged.lastUpdated # mergedBefore.lastUpdated
        => merged.lastUpdated = mergedAt)

\* two calls on the same catalogs, the second later than the first and on
\* arguments the first had added merchants to, returned the same categories
\* under a later lastUpdated
C23_CalledAgainLater ==
    /\ nMerges = 2
    /\ Len(merged.categories) > 0
    /\ merged.categories = mergedBefore.categories
    /\ merged.lastUpdated > mergedBefore.lastUpdated
    /\ \E i \in 1..Len(mergeArgs[1].categories) :
         Len(partneradsData.categories[i].merchants)
         > Len(mergeArgs[1].categories[i].merchants)

\* the normalized names of the categories of a catalog
NamesOf(data) ==
    {NormalizedName(data.categories[i].name) : i \in 1..Len(data.categories)}

\* how many merchants a catalog has under a normalized name
CountUnder(data, key) ==
    Len(MerchantsNamed(data.categories, key))

\* C24: the call with the two catalogs in one order and the call with them
\* in the other order return categories of the same normalized names, with
\* the same number of merchants under each name.
C24_SameCountsEitherOrder ==
    (Called /\ nSwapped > 0) =>
    /\ NamesOf(merged) = NamesOf(mergedSwapped)
    /\ \A key \in NamesOf(merged) :
          CountUnder(merged, key) = CountUnder(mergedSwapped, key)

\* the two catalogs had a merchant of the same normalized URL under the same
\* category name; called in one order the Partner-ads record was kept, in
\* the other order the Adtraction record
C24_OtherRecordKept ==
    /\ Called
    /\ nSwapped > 0
    /\ \E c \in OutputIndices, d \in 1..Len(mergedSwapped.categories) :
         LET kept == merged.categories[c].merchants
             keptSwapped == mergedSwapped.categories[d].merchants
         IN /\ NormalizedName(merged.categories[c].name)
               = NormalizedName(mergedSwapped.categories[d].name)
            /\ Len(kept) = Len(keptSwapped)
            /\ \E i \in 1..Len(kept), j \in 1..Len(keptSwapped) :
                  /\ normalizeUrl(kept[i].programurl)
                     = normalizeUrl(keptSwapped[j].programurl)
                  /\ kept[i].source = "partnerads"
                  /\ keptSwapped[j].source = "adtraction"

----------------------------------------------------------------------------
(* generateCategoryId (src/app/lib/types.ts)                               *)
(*                                                                         *)
(* The hash is a JavaScript number: hash << 5 is computed on the low 32    *)
(* bits and gives a signed 32-bit integer, to which hash itself and the    *)
(* character code are added without truncation.  A number is kept here in  *)
(* two parts, value = hi * 65536 + lo with lo in 0..65535, so that the     *)
(* arithmetic is exact.                                                    *)

\* length of the category names tried
MaxNameLen == 6

WORD == 65536
HALF_WORD == 32768
ID_RANGE == 1000000
DJB2_SEED == 5381

Num(hi, lo) == [hi |-> hi, lo |-> lo]

\* a number from 0 to 2^31 - 1
FromInt(n) == Num(n \div WORD, n % WORD)

\* the 16 bits as a signed number
Signed16(h) == IF h >= HALF_WORD THEN h - WORD ELSE h

\* ToInt32: the low 32 bits, signed
ToInt32(x) == Num(Signed16(x.hi % WORD), x.lo)

\* x << 5
ShiftLeft5(x) ==
    LET low == x.lo * 32
        high == ((x.hi % WORD) * 32 + low \div WORD) % WORD
    IN Num(Signed16(high), low % WORD)

Plus(x, y) ==
    LET low == x.lo + y.lo
    IN Num(x.hi + y.hi + low \div WORD, low % WORD)

\* Math.abs
Abs(x) ==
    IF x.hi >= 0 THEN x
    ELSE IF x.lo = 0 THEN Num(-x.hi, 0)
    ELSE Num(-x.hi - 1, WORD - x.lo)

\* x % 1000000 for x >= 0
ModIdRange(x) ==
    ((((x.hi % ID_RANGE) * 256) % ID_RANGE) * 256 + x.lo) % ID_RANGE

\* String.prototype.charCodeAt for the characters of the names tried
CharCode ==
    (" " :> 32) @@ ("&" :> 38) @@ ("E" :> 69) @@ ("O" :> 79) @@
    ("d" :> 100) @@ ("e" :> 101) @@ ("g" :> 103) @@ ("i" :> 105) @@
    ("n" :> 110) @@ ("o" :> 111) @@ ("r" :> 114) @@ ("s" :> 115) @@
    ("v" :> 118)

\* lines 235-238: the loop, from character i on
RECURSIVE Djb2(_, _, _)
Djb2(normalized, i, hash) ==
    IF i > Len(normalized)
    THEN hash
    ELSE LET sum == Plus(Plus(ShiftLeft5(ToInt32(hash)), hash),
                         FromInt(CharCode[normalized[i]]))
         IN \* the sum is a number, in its two parts, before the next round
            CASE sum.lo \in 0..(WORD - 1) -> Djb2(normalized, i + 1, sum)

\* an id that is returned as it is
zeroKept(id) == id

\* line 242: id === 0 ? 1 : id
zeroToOne(id) == IF id = 0 THEN 1 ELSE id

\* lines 230-243
generateCategoryId(name, source) ==
    LET normalized == trim(toLowerCase(name))
        hash == Djb2(normalized, 1, FromInt(DJB2_SEED))
    IN zeroToOne(ModIdRange(Abs(hash)))

NetworkSources == {"partnerads", "adtraction"}

\* the name as given, and the name trimmed and lower-cased
NamesAsked == {categoryName, toLowerCase(trim(categoryName))}

\* one call of generateCategoryId that has not been made yet
GenerateCategoryId(name, source) ==
    /\ \A call \in idsReturned : call.name # name \/ call.source # source
    /\ idsReturned' = idsReturned \cup
           {[name |-> name, source |-> source,
             id |-> generateCategoryId(name, source)]}
    /\ UNCHANGED categoryName
    /\ UNCHANGED nonIdVars

NameAlphabet == {" ", "E", "e", "o"}

\* a name whose hash is 270000000, in three spellings
NAME_ORENG == <<"o", "r", "e", "n", "g">>
NAME_ORENG_UPPER == <<"O", "r", "e", "n", "g">>
NAME_ORENG_PADDED == <<" ", "O", "r", "e", "n", "g", " ">>

Names ==
    SeqsUpTo(NameAlphabet, MaxNameLen)
    \cup {NAME_ORENG, NAME_ORENG_UPPER, NAME_ORENG_PADDED}

InitCategoryId ==
    /\ store = [k \in CACHE_KEYS |-> NoEntry]
    /\ now = 0
    /\ InitRest
    /\ SchedulerAtLoad
    /\ NothingMerged
    /\ NotRetrying
    /\ LoaderIdle
    /\ FetchersIdle
    /\ categoryName \in Names
    /\ idsReturned = {}

NextCategoryId ==
    \E name \in NamesAsked, source \in NetworkSources :
        GenerateCategoryId(name, source)

SpecCategoryId == InitCategoryId /\ [][NextCategoryId]_vars

\* C25: every id returned is an integer from 1 to 999999, and the ids
\* returned for one name, for either source, as given or trimmed and
\* lower-cased, are all the same.
C25_IdInRangeAndDeterministic ==
    /\ \A call \in idsReturned : call.id \in 1..(ID_RANGE - 1)
    /\ \A call, other \in idsReturned : call.id = other.id

\* a name whose hash is a multiple of 1000000 was asked for, padded and
\* capitalized and trimmed and lower-cased, for both sources, and got 1
C25_ZeroIdBecameOne ==
    /\ categoryName = NAME_ORENG_PADDED
    /\ {<<call.name, call.source>> : call \in idsReturned}
       = {NAME_ORENG_PADDED, NAME_ORENG} \X NetworkSources
    /\ \A call \in idsReturned : call.id = 1

----------------------------------------------------------------------------
(* fetchWithRetry (src/unnamed/part_008, fetch-utils.server)               *)
(*                                                                         *)
(* One call of fetchWithRetry(fetchFn, maxRetries, initialDelay, ...).     *)
(* fetchFn is any function: each invocation resolves with a value or       *)
(* rejects with an Error or with something that is not an Error.  A step   *)
(* runs the function from one await to the next.                           *)

\* the largest maxRetries tried
MaxAttempts == 3

\* initialDelay, in milliseconds: the callers pass 1000, the tests 10 and 100
InitialDelays == {10, 100, 1000}

\* what an invocation of fetchFn can resolve with
RetryResults == {"r1", "r2"}

\* what invocation number n of fetchFn can reject with
Rejections(n) ==
    {[isError |-> TRUE, message |-> "Fail", attempt |-> n],
     [isError |-> FALSE, message |-> "string error", attempt |-> n]}

\* new Error('Unknown error')
UnknownError == [isError |-> TRUE, message |-> "Unknown error", attempt |-> 0]

\* a rejection that is let through as it is
asThrown(error) == error

\* line 81: error instanceof Error ? error : new Error('Unknown error')
asError(error) == IF error.isError THEN error ELSE UnknownError

\* a loop that never ends
loopForever(n, maxRetries) == TRUE

\* line 76: attempt <= maxRetries
loopContinues(n, maxRetries) == n <= maxRetries

\* line 84: attempt < maxRetries
retriesLeft(n, maxRetries) == n < maxRetries

\* a delay that does not grow
constantDelay(initialDelay, n) == initialDelay

\* line 85: initialDelay * Math.pow(2, attempt - 1)
backoff(initialDelay, n) == initialDelay * 2^(n - 1)

\* lines 76-79 and 92: the loop test with attempt = n; fetchFn is invoked, or
\* the loop is over and the call throws
LoopTest(n) ==
    /\ attempt' = n
    /\ IF loopContinues(n, retryArgs.maxRetries)
       THEN /\ invocations' = invocations + 1
            /\ retryPc' = "fetching"
            /\ UNCHANGED retryOutcome
       ELSE /\ retryPc' = "thrown"
            /\ retryOutcome' =
                  [ok |-> FALSE, value |-> "none",
                   error |-> IF lastError' = NoError THEN UnknownError
                             ELSE lastError']
            /\ UNCHANGED invocations

\* lines 68-79: the call, up to the first await
CallFetchWithRetry ==
    /\ retryPc = "idle"
    /\ LoopTest(1)
    /\ UNCHANGED <<retryArgs, lastError, attemptLog, delays>>
    /\ UNCHANGED nonRetryVars

\* line 79: fetchFn resolved; the call returns its value
FetchFnResolves(value) ==
    /\ retryPc = "fetching"
    /\ attemptLog' = Append(attemptLog, [ok |-> TRUE, value |-> value,
                                         error |-> NoError])
    /\ retryPc' = "returned"
    /\ retryOutcome' = [ok |-> TRUE, value |-> value, error |-> NoError]
    /\ UNCHANGED <<retryArgs, attempt, lastError, invocations, delays>>
    /\ UNCHANGED nonRetryVars

\* lines 80-88: fetchFn rejected; the call sleeps before the next attempt, or
\* goes on to the loop test
FetchFnRejects(error) ==
    /\ retryPc = "fetching"
    /\ attemptLog' = Append(attemptLog, [ok |-> FALSE, value |-> "none",
                                         error |-> error])
    /\ lastError' = asError(error)
    /\ IF retriesLeft(attempt, retryArgs.maxRetries)
       THEN /\ delays' = Append(delays,
                                backoff(retryArgs.initialDelay, attempt))
            /\ retryPc' = "sleeping"
            /\ UNCHANGED <<attempt, invocations, retryOutcome>>
       ELSE /\ LoopTest(attempt + 1)
            /\ UNCHANGED delays
    /\ UNCHANGED retryArgs
    /\ UNCHANGED nonRetryVars

\* line 87: the sleep is over; attempt++ and the loop test
SleepEnds ==
    /\ retryPc = "sleeping"
    /\ LoopTest(attempt + 1)
    /\ UNCHANGED <<retryArgs, lastError, attemptLog, delays>>
    /\ UNCHANGED nonRetryVars

InitRetry ==
    /\ store = [k \in CACHE_KEYS |-> NoEntry]
    /\ now = 0
    /\ InitRest
    /\ SchedulerAtLoad
    /\ NothingMerged
    /\ NoIdsAsked
    /\ LoaderIdle
    /\ FetchersIdle
    /\ retryArgs \in [maxRetries : 1..MaxAttempts,
                      initialDelay : InitialDelays]
    /\ retryPc = "idle"
    /\ attempt = 0
    /\ lastError = NoError
    /\ invocations = 0
    /\ attemptLog = <<>>
    /\ delays = <<>>
    /\ retryOutcome = NoOutcome

NextRetry ==
    \/ CallFetchWithRetry
    \/ \E value \in RetryResults : FetchFnResolves(value)
    \/ \E error \in Rejections(invocations) : FetchFnRejects(error)
    \/ SleepEnds

SpecRetry == InitRetry /\ [][NextRetry]_vars

\* every invocation of fetchFn ends and every sleep ends
SpecRetryLive == SpecRetry /\ WF_vars(NextRetry)

\* the call has resolved or rejected
RetryEnded == retryPc \in {"returned", "thrown"}

\* the invocations of fetchFn that have ended, and those that rejected
Ended == 1..Len(attemptLog)
Failed == {n \in Ended : ~attemptLog[n].ok}

\* C26: fetchFn is never invoked more than maxRetries times; once an
\* invocation has resolved the call has returned that invocation's value and
\* fetchFn is not invoked again; and every call ends, resolved or rejected.
C26_BoundedAttemptsFirstSuccessReturned ==
    /\ [](/\ invocations <= retryArgs.maxRetries
          /\ \A n \in Ended :
                attemptLog[n].ok
                => /\ n = Len(attemptLog)
                   /\ invocations = n
                   /\ retryPc = "returned"
                   /\ retryOutcome.ok
                   /\ retryOutcome.value = attemptLog[n].value)
    /\ <>RetryEnded

\* the first invocation rejected, the second resolved, and the call
\* returned its value with one attempt unused
C26_SecondAttemptSucceeded ==
    /\ retryPc = "returned"
    /\ retryArgs.maxRetries = 3
    /\ invocations = 2
    /\ Len(attemptLog) = 2
    /\ ~attemptLog[1].ok
    /\ attemptLog[2].ok
    /\ retryOutcome.value = attemptLog[2].value

\* C27: the call rejects when, and only when, maxRetries invocations of
\* fetchFn have rejected, fetchFn having been invoked exactly maxRetries
\* times; it rejects with what the last invocation rejected with if that is
\* an Error, and with an Error whose message is 'Unknown error' if it is not.
C27_RejectsWithLastError ==
    /\ retryPc = "thrown"
       <=> (Len(attemptLog) = retryArgs.maxRetries /\ Failed = Ended)
    /\ retryPc = "thrown"
       => /\ invocations = retryArgs.maxRetries
          /\ ~retryOutcome.ok
          /\ LET last == attemptLog[Len(attemptLog)].error
             IN /\ last.isError => retryOutcome.error = last
                /\ ~last.isError
                   => /\ retryOutcome.error.isError
                      /\ retryOutcome.error.message = "Unknown error"

\* three invocations rejected, the first two with Errors and the last with
\* something that is not an Error, and the call rejected with 'Unknown error'
C27_NonErrorReplaced ==
    /\ retryPc = "thrown"
    /\ retryArgs.maxRetries = 3
    /\ invocations = 3
    /\ attemptLog[1].error.isError
    /\ attemptLog[2].error.isError
    /\ ~attemptLog[3].error.isError
    /\ retryOutcome.error = UnknownError

\* C28: the delay slept after the k-th rejected invocation is initialDelay
\* times 2 to the power k - 1, for every rejected invocation but the
\* maxRetries-th, after which nothing is slept.
C28_DelaysDouble ==
    /\ Len(delays) = Cardinality(Failed \ {retryArgs.maxRetries})
    /\ Len(delays) <= retryArgs.maxRetries - 1
    /\ \A k \in 1..Len(delays) :
          delays[k] = retryArgs.initialDelay * 2^(k - 1)
    /\ retryPc = "sleeping" => Len(delays) = Len(attemptLog)

\* three invocations rejected: initialDelay was slept after the first, twice
\* initialDelay after the second, nothing after the third
C28_TwoDelaysThenRejected ==
    /\ retryPc = "thrown"
    /\ retryArgs = [maxRetries |-> 3, initialDelay |-> 100]
    /\ Len(attemptLog) = 3
    /\ delays = <<100, 200>>

----------------------------------------------------------------------------
(* The request loader (src/unnamed/part_004, routes/_index.tsx)            *)
(*                                                                         *)
(* One request.  The loader calls getCachedOrFetchStale for the two source *)
(* keys at once; the two calls are the cache manager's calls of slots 1    *)
(* and 2 and run by its actions.  Meanwhile the clock runs and a scheduled *)
(* refresh may store an entry.  mergeAffiliateData is shown by the data it *)
(* is handed for each key.                                                 *)

\* the call slot of the getCachedOrFetchStale call made for a key
SourceSlot == ("partnerads-data" :> 1) @@ ("adtraction-data" :> 2)

\* lines 77-84
errorMessage(partneradsError, adtractionError) ==
    IF partneradsError /\ ~adtractionError
    THEN "Partner-ads unavailable, showing Adtraction data only"
    ELSE IF adtractionError /\ ~partneradsError
    THEN "Adtraction unavailable, showing Partner-ads data only"
    ELSE IF partneradsError /\ adtractionError
    THEN "Both sources temporarily unavailable, showing cached data"
    ELSE "null"

\* lines 67-74
sourceIndicator(partneradsResult, adtractionResult) ==
    IF partneradsResult # Undefined /\ adtractionResult # Undefined THEN "both-apis"
    ELSE IF partneradsResult # Undefined THEN "partnerads-only"
    ELSE IF adtractionResult # Undefined THEN "adtraction-only"
    ELSE "api"

\* lines 56 and 101: at least one of the two is there
anyData(partneradsResult, adtractionResult) ==
    partneradsResult # Undefined \/ adtractionResult # Undefined

\* lines 10-50: the loader up to `await Promise.all`: both
\* fetchSourceWithFallback calls have called getCachedOrFetchStale, which
\* stands at its first await.  MaxCalls bounds the calls made besides these.
LoaderCall ==
    /\ loaderPc = "idle"
    /\ loaderPc' = "awaiting"
    /\ calls' = [p \in Procs |->
                   IF \E k \in SOURCE_KEYS : SourceSlot[k] = p
                   THEN NewCall("getCachedOrFetchStale",
                                CHOOSE k \in SOURCE_KEYS : SourceSlot[k] = p,
                                "stale_read1")
                   ELSE calls[p]]
    /\ UNCHANGED <<store, now, inFlightRequests, refreshLocks, metrics, bg,
                   fetchCount, bgStarted, bgFailed, nCalls>>
    /\ UNCHANGED <<sourceResults, lastResort, loaderReturn>>
    /\ UNCHANGED <<schedVars, mergeVars, idVars, retryVars, fetcherVars>>

\* lines 27-34: getCachedOrFetchStale has settled: its data is the result,
\* or it threw and the cache is read
FetchSourceSettles(k) ==
    /\ loaderPc = "awaiting"
    /\ sourceResults[k].state = "pending"
    /\ calls[SourceSlot[k]].pc = "done"
    /\ LET ret == calls[SourceSlot[k]].ret
       IN sourceResults' = [sourceResults EXCEPT ![k] =
            IF ret # FetchError
            THEN [state |-> "settled", data |-> ret, threw |-> FALSE]
            ELSE [state |-> "fallback", data |-> Undefined, threw |-> TRUE]]
    /\ UNCHANGED <<loaderPc, lastResort, loaderReturn>>
    /\ UNCHANGED <<cacheVars, schedVars, mergeVars, idVars, retryVars,
                   fetcherVars>>

\* lines 34-40: getCachedIgnoreVersion has resolved
FetchSourceFallsBack(k) ==
    /\ loaderPc = "awaiting"
    /\ sourceResults[k].state = "fallback"
    /\ sourceResults' = [sourceResults EXCEPT ![k] =
            [state |-> "settled",
             data |-> getCachedIgnoreVersion(keyvGet(k)),
             threw |-> TRUE]]
    /\ UNCHANGED <<loaderPc, lastResort, loaderReturn>>
    /\ UNCHANGED <<cacheVars, schedVars, mergeVars, idVars, retryVars,
                   fetcherVars>>

\* lines 47-98: Promise.all has resolved; the loader returns the merged
\* data, or throws the Response of line 57, catches it and reads the cache
LoaderMerges ==
    /\ loaderPc = "awaiting"
    /\ \A k \in SOURCE_KEYS : sourceResults[k].state = "settled"
    /\ LET partneradsResult == sourceResults["partnerads-data"].data
           adtractionResult == sourceResults["adtraction-data"].data
           partneradsError == partneradsResult = Undefined
           adtractionError == adtractionResult = Undefined
       IN IF anyData(partneradsResult, adtractionResult)
          THEN /\ loaderPc' = "returned"
               /\ loaderReturn' =
                    [status |-> 200,
                     source |-> sourceIndicator(partneradsResult, adtractionResult),
                     data |-> [k \in SOURCE_KEYS |-> sourceResults[k].data],
                     error |-> errorMessage(partneradsError, adtractionError)]
          ELSE /\ loaderPc' = "last_resort"
               /\ UNCHANGED loaderReturn
    /\ UNCHANGED <<sourceResults, lastResort>>
    /\ UNCHANGED <<cacheVars, schedVars, mergeVars, idVars, retryVars,
                   fetcherVars>>

\* line 98: partneradsCache has been read
LastResortPartnerads ==
    /\ loaderPc = "last_resort"
    /\ lastResort["partnerads-data"] = Unread
    /\ lastResort' = [lastResort EXCEPT !["partnerads-data"] =
                         getCachedIgnoreVersion(keyvGet("partnerads-data"))]
    /\ UNCHANGED <<loaderPc, sourceResults, loaderReturn>>
    /\ UNCHANGED <<cacheVars, schedVars, mergeVars, idVars, retryVars,
                   fetcherVars>>

\* lines 99-115: adtractionCache has been read; the loader returns what the
\* cache had, or throws the Response with status 500
LastResortAdtraction ==
    /\ loaderPc = "last_resort"
    /\ lastResort["partnerads-data"] # Unread
    /\ LET partneradsCache == lastResort["partnerads-data"]
           adtractionCache == getCachedIgnoreVersion(keyvGet("adtraction-data"))
       IN /\ lastResort' = [lastResort EXCEPT !["adtraction-data"] =
                               adtractionCache]
          /\ IF anyData(partneradsCache, adtractionCache)
             THEN /\ loaderPc' = "returned"
                  /\ loaderReturn' =
                       [status |-> 200, source |-> "cache-fallback",
                        data |-> ("partnerads-data" :> partneradsCache)
                                 @@ ("adtraction-data" :> adtractionCache),
                        error |-> "Using cached data due to API errors"]
             ELSE /\ loaderPc' = "failed"
                  /\ loaderReturn' = [NoReturn EXCEPT !.status = 500]
    /\ UNCHANGED sourceResults
    /\ UNCHANGED <<cacheVars, schedVars, mergeVars, idVars, retryVars,
                   fetcherVars>>

\* cron-scheduler.server.ts lines 32-35: executeRefresh calls
\* forceRefreshCache for a key while the request is being served.  The call
\* takes a slot the request no longer reads.
CronCallsForceRefreshCache(p, k) ==
    /\ loaderPc \in {"awaiting", "last_resort"}
    /\ \A s \in SOURCE_KEYS :
          SourceSlot[s] = p => sourceResults[s].state # "pending"
    /\ CallForceRefreshCache(p, k)

InitLoader ==
    /\ store \in [SOURCE_KEYS -> InitEntries]
    /\ now = 0
    /\ inFlightRequests = [k \in SOURCE_KEYS |-> NoProc]
    /\ refreshLocks = {}
    /\ metrics = [InitMetrics EXCEPT !.fetchTimes = [k \in SOURCE_KEYS |-> 0]]
    /\ calls = [p \in Procs |-> IdleCall]
    /\ bg = [p \in Procs |-> IdleBg]
    /\ fetchCount = [k \in SOURCE_KEYS |-> 0]
    /\ bgStarted = [k \in SOURCE_KEYS |-> 0]
    /\ bgFailed = [k \in SOURCE_KEYS |-> 0]
    /\ nCalls = 0
    /\ SchedulerAtLoad
    /\ NothingMerged
    /\ UtilitiesIdle

NextLoader ==
    \/ LoaderCall
    \/ \E p \in Procs : GetCachedOrFetchStaleRead1(p)
    \/ \E p \in Procs : GetCachedOrFetchStaleRead2(p)
    \/ \E p \in Procs : GetCachedOrFetchRead(p)
    \/ \E p \in Procs, d \in FetchResults : GetCachedOrFetchResolve(p, d)
    \/ \E p \in Procs : GetCachedOrFetchReject(p)
    \/ \E p \in Procs : GetCachedOrFetchStored(p)
    \/ \E p \in Procs, d \in FetchResults : RefreshInBackgroundResolve(p, d)
    \/ \E p \in Procs : RefreshInBackgroundReject(p)
    \/ \E p \in Procs : RefreshInBackgroundStored(p)
    \/ \E k \in SOURCE_KEYS : FetchSourceSettles(k)
    \/ \E k \in SOURCE_KEYS : FetchSourceFallsBack(k)
    \/ LoaderMerges
    \/ LastResortPartnerads
    \/ LastResortAdtraction
    \/ \E p \in Procs, k \in SOURCE_KEYS : CronCallsForceRefreshCache(p, k)
    \/ \E p \in Procs : ForceRefreshCachePollExit(p)
    \/ \E p \in Procs : ForceRefreshCacheRead(p)
    \/ \E p \in Procs, d \in FetchResults : ForceRefreshCacheResolve(p, d)
    \/ \E p \in Procs : ForceRefreshCacheReject(p)
    \/ \E p \in Procs : ForceRefreshCacheStored(p)
    \/ Tick

SpecLoader == InitLoader /\ [][NextLoader]_vars

\* the request has been answered
LoaderEnded == loaderPc \in {"returned", "failed"}

\* fetchSourceWithFallback for key k takes what getCachedOrFetchStale
\* returned, and turns to the cache only when that call threw on a fetch
\* that failed
SourceTakenOrFetchFailed(k) ==
    (sourceResults[k].state = "pending" /\ sourceResults'[k].state # "pending")
    => LET call == calls[SourceSlot[k]]
       IN IF sourceResults'[k].threw
          THEN call.fetched /\ call.ret = FetchError
          ELSE sourceResults'[k].data = call.ret /\ call.ret \in Data

\* a read of the cache for key k by the loader found nothing only if
\* cache.get had no live entry for k, whatever its version
LoaderReadMissesOnlyNoEntry(k) ==
    /\ (/\ sourceResults[k].state = "fallback"
        /\ sourceResults'[k].state = "settled"
        /\ sourceResults'[k].data = Undefined) => keyvGet(k) = NoEntry
    /\ (/\ loaderPc = "last_resort"
        /\ lastResort[k] = Unread
        /\ lastResort'[k] = Undefined) => keyvGet(k) = NoEntry

\* C29: the loader answers with the data of every source key that yielded
\* any, from getCachedOrFetchStale or, after that threw, from the entry the
\* cache holds whatever its version; it answers with status 500 only when
\* both getCachedOrFetchStale calls threw on a failed fetch and every read of
\* the cache, for both keys, found no entry at all.
C29_DataWheneverAnySourceHasIt ==
    /\ [](/\ loaderPc = "failed" =>
              /\ loaderReturn.status = 500
              /\ \A k \in SOURCE_KEYS :
                    /\ sourceResults[k].threw
                    /\ sourceResults[k].data = Undefined
                    /\ lastResort[k] = Undefined
          /\ loaderPc = "returned" =>
              /\ loaderReturn.status = 200
              /\ \E k \in SOURCE_KEYS : loaderReturn.data[k] # Undefined
              /\ \A k \in SOURCE_KEYS :
                    /\ loaderReturn.data[k] =
                         IF loaderReturn.source = "cache-fallback"
                         THEN lastResort[k]
                         ELSE sourceResults[k].data
          /\ (/\ LoaderEnded
              /\ \E k \in SOURCE_KEYS :
                    \/ sourceResults[k].data # Undefined
                    \/ lastResort[k] \notin {Unread, Undefined})
             => loaderPc = "returned")
    /\ [][\A k \in SOURCE_KEYS : /\ SourceTakenOrFetchFailed(k)
                                  /\ LoaderReadMissesOnlyNoEntry(k)]_vars

\* C29 witness: a source whose fetch failed is answered from the entry an
\* older build stored
C29_FailedSourceServedFromOtherVersion ==
    /\ loaderPc = "returned"
    /\ \E k \in SOURCE_KEYS :
          /\ sourceResults[k].threw
          /\ store[k].version = OLD_VERSION
          /\ loaderReturn.data[k] = store[k].data
          /\ loaderReturn.data[k] # Undefined

----------------------------------------------------------------------------
(* getCachedOrFetchStale and the version of the entry it finds             *)

\* slot p holds a getCachedOrFetchStale call that takes its decision of
\* lines 175-177 in this step
StaleDecision(p) ==
    /\ calls[p].op = "getCachedOrFetchStale"
    /\ calls[p].pc = "stale_read2"
    /\ calls'[p].pc # "stale_read2"

\* the entry is one cache.get returns, with version metadata of any version,
\* written more than STALE_THRESHOLD ago
OldVersionedEntry(cached) ==
    /\ cached # NoEntry
    /\ IsVersioned(cached)
    /\ now - cached.timestamp > STALE_THRESHOLD

\* slot p holds a getCachedOrFetchStale call that has gone on to
\* getCachedOrFetch and learns in this step what getCached found
StaleCallReadsCache(p) ==
    /\ calls[p].op = "getCachedOrFetchStale"
    /\ calls[p].pc = "gcf_read"
    /\ calls'[p].pc # "gcf_read"

\* C30: getCachedOrFetchStale returns at once the data of an entry written
\* more than STALE_THRESHOLD ago, whatever version the entry carries; an
\* entry not older than the threshold, or a legacy entry without version
\* metadata, is not served: the call goes on to getCachedOrFetch, where an
\* entry of another version or a legacy entry is a miss, so that the call
\* starts a fetch and returns only what the fetch gave.
C30_OldServedAnyVersionYoungMismatchFetches ==
    /\ [][\A p \in Procs :
            /\ StaleDecision(p) =>
                 LET cached == keyvGet(calls[p].key)
                 IN IF OldVersionedEntry(cached) /\ calls[p].staleData # Undefined
                    THEN /\ calls'[p].pc = "done"
                         /\ calls'[p].ret = calls[p].staleData
                         /\ ~calls'[p].fetched
                    ELSE calls'[p].pc \in {"gcf_read", "gcf_await"}
            /\ StaleCallReadsCache(p) =>
                 LET cached == keyvGet(calls[p].key)
                 IN (cached = NoEntry \/ cached.version # CACHE_VERSION)
                    => /\ calls'[p].pc = "gcf_fetch"
                       /\ calls'[p].fetched
                       /\ fetchCount'[calls[p].key] = fetchCount[calls[p].key] + 1]_vars
    /\ [](\A p \in Procs :
            (/\ calls[p].op = "getCachedOrFetchStale"
             /\ calls[p].pc = "done"
             /\ calls[p].fetched)
            => calls[p].ret \in FetchResults \cup {FetchError})

\* C30 witness: a call has been served, without a fetch of its own, the data
\* of an entry of an older version that is past the threshold
C30_OldEntryOfOtherVersionServed ==
    \E p \in Procs :
        /\ calls[p].op = "getCachedOrFetchStale"
        /\ calls[p].pc = "done"
        /\ ~calls[p].fetched
        /\ ~calls[p].waited
        /\ LET cached == keyvGet(calls[p].key)
           IN /\ cached # NoEntry
              /\ cached.version = OLD_VERSION
              /\ now - cached.timestamp > STALE_THRESHOLD
              /\ calls[p].ret = cached.data

----------------------------------------------------------------------------
(* Stale-while-revalidate over time: a key that holds a stale entry is     *)
(* read by a sequence of getCachedOrFetchStale and getCachedOrFetch calls  *)
(* while the clock runs.                                                   *)

\* calls issued in a run of SpecRevalidate
MaxRequests == 3

\* a caller may call when a slot is free
MayRequest(p) ==
    /\ Free(p)
    /\ \A q \in Procs : q < p => ~Free(q)
    /\ nCalls < MaxRequests

\* line 171: `await getCachedIgnoreVersion(key)`
RequestGetCachedOrFetchStale(p, k) ==
    /\ MayRequest(p)
    /\ calls' = [calls EXCEPT ![p] = NewCall("getCachedOrFetchStale", k, "stale_read1")]
    /\ nCalls' = nCalls + 1
    /\ UNCHANGED <<store, now, inFlightRequests, refreshLocks, metrics, bg,
                   fetchCount, bgStarted, bgFailed>>
    /\ UNCHANGED nonCacheVars

\* lines 107-114
RequestGetCachedOrFetch(p, k) ==
    /\ MayRequest(p)
    /\ calls' = [calls EXCEPT ![p] =
                    EnterGetCachedOrFetch(NewCall("getCachedOrFetch", k, "idle"), k)]
    /\ nCalls' = nCalls + 1
    /\ UNCHANGED <<store, now, inFlightRequests, refreshLocks, metrics, bg,
                   fetchCount, bgStarted, bgFailed>>
    /\ UNCHANGED nonCacheVars

\* the key holds an entry written STALE_THRESHOLD + 1 days ago, by this
\* build or an older one
InitRevalidate ==
    /\ now = 0
    /\ store \in [CACHE_KEYS ->
                    {Entry(v, OldData, 0 - (STALE_THRESHOLD + 1),
                           0 - (STALE_THRESHOLD + 1) + CACHE_TTL) :
                       v \in {CACHE_VERSION, OLD_VERSION}}]
    /\ InitRest
    /\ SchedulerAtLoad
    /\ NothingMerged
    /\ UtilitiesIdle

\* the steps of a refreshInBackground task
RefreshInBackgroundStep ==
    \/ \E p \in Procs, d \in FetchResults : RefreshInBackgroundResolve(p, d)
    \/ \E p \in Procs : RefreshInBackgroundReject(p)
    \/ \E p \in Procs : RefreshInBackgroundStored(p)

NextRevalidate ==
    \/ \E p \in Procs, k \in CACHE_KEYS : RequestGetCachedOrFetchStale(p, k)
    \/ \E p \in Procs, k \in CACHE_KEYS : RequestGetCachedOrFetch(p, k)
    \/ \E p \in Procs : GetCachedOrFetchStaleRead1(p)
    \/ \E p \in Procs : GetCachedOrFetchStaleRead2(p)
    \/ \E p \in Procs : GetCachedOrFetchRead(p)
    \/ \E p \in Procs, d \in FetchResults : GetCachedOrFetchResolve(p, d)
    \/ \E p \in Procs : GetCachedOrFetchReject(p)
    \/ \E p \in Procs : GetCachedOrFetchStored(p)
    \/ RefreshInBackgroundStep
    \/ Tick

\* every fetchFn settles and every cache.set completes
SpecRevalidate ==
    InitRevalidate /\ [][NextRevalidate]_vars /\ WF_vars(RefreshInBackgroundStep)

\* the key holds an unexpired entry of the current version that is not past
\* the staleness threshold
FreshEntry(k) == ValidEntry(k) /\ Age(k) <= STALE_THRESHOLD

\* a refreshInBackground task for key k is between its `refreshLocks.add`
\* and its `finally`
BackgroundRefreshRunning(k) ==
    \E b \in Procs : bg[b].pc \in {"fetch", "store"} /\ bg[b].key = k

\* a refreshInBackground task whose fetch succeeded stores, in this step,
\* what it fetched, stamped with the current version, and counts a refresh
RefreshStoresWhatItFetched ==
    \A b \in Procs :
        (bg[b].pc = "store" /\ bg'[b].pc = "idle")
        => LET k == bg[b].key
           IN /\ store'[k] = bg[b].pending
              /\ store'[k].data \in FetchResults
              /\ store'[k].version = CACHE_VERSION
              /\ store'[k].timestamp <= now
              /\ store'[k].timestamp >= 0
              /\ metrics'.refreshes = metrics.refreshes + 1
              /\ k \notin refreshLocks'

\* a getCachedOrFetchStale call that returns stale data in this step leaves
\* a refresh of the key running
StaleServedWhileRefreshing ==
    \A p \in Procs :
        (StaleDecision(p) /\ calls'[p].pc = "done")
        => BackgroundRefreshRunning(calls[p].key)'

\* once a refresh is running on a stale entry it stores an entry of the
\* current version holding fetched data in its place, unless a fetch of a
\* background refresh fails; the entry carries the time at which setCache
\* was entered (line 277), not the time at which `cache.set` completed
StaleEntryEventuallyReplaced ==
    \A k \in CACHE_KEYS :
        [](bgFailed[k] = 0)
        => \A n \in 0..MaxRequests :
              (/\ metrics.refreshes = n
               /\ StaleEntry(k)
               /\ BackgroundRefreshRunning(k))
              ~> (/\ metrics.refreshes > n
                  /\ store[k].version = CACHE_VERSION
                  /\ store[k].data \in FetchResults)

\* a getCachedOrFetchStale call that found the refreshed entry at line 171
\* decides in this step, the entry still fresh
LaterCallDecides(p) ==
    /\ StaleDecision(p)
    /\ FreshEntry(calls[p].key)
    /\ calls[p].staleData = store[calls[p].key].data

----------------------------------------------------------------------------
(* The source fetchers (src/unnamed/part_006, src/unnamed/part_005)        *)
(*                                                                         *)
(* What the fetch function of fetchPartnerAdsData and of                   *)
(* fetchAdtractionData makes of the records of an API response that has    *)
(* been received and parsed.  A value of a raw record is a string, a       *)
(* number or absent; strings are sequences of characters.                  *)

\* records in one API response
MaxRecords == 2

StringValue(chars) == [type |-> "string", chars |-> chars, number |-> 0]
NumberValue(number) == [type |-> "number", chars |-> <<>>, number |-> number]
Absent == [type |-> "undefined", chars |-> <<>>, number |-> 0]

\* `!value` is false
Truthy(value) ==
    CASE value.type = "string" -> value.chars # <<>>
      [] value.type = "number" -> value.number # 0
      [] OTHER -> FALSE

\* z.string().url(), for the strings of the model: a protocol and a host
isUrl(chars) ==
    \/ StartsWith(chars, HTTPS) /\ Len(chars) > Len(HTTPS)
    \/ StartsWith(chars, HTTP) /\ Len(chars) > Len(HTTP)

zString(value) == value.type = "string"
zStringMin1(value) == value.type = "string" /\ Len(value.chars) >= 1
zStringUrl(value) == value.type = "string" /\ isUrl(value.chars)
zNumberInt(value) == value.type = "number"
zStringOptional(value) == value.type = "undefined" \/ zString(value)
zNumberIntOptional(value) == value.type = "undefined" \/ zNumberInt(value)

\* types.ts lines 142-150
PartnerAdsXMLMerchantSchema(raw) ==
    /\ zStringMin1(raw.programid)
    /\ zStringMin1(raw.programnavn)
    /\ zStringUrl(raw.programurl)
    /\ zStringUrl(raw.affiliatelink)
    /\ zStringMin1(raw.kategoriid)
    /\ zStringMin1(raw.kategorinavn)
    /\ zStringMin1(raw.status)

\* types.ts lines 205-216
AdtractionProgramSchema(raw) ==
    /\ zNumberInt(raw.programId)
    /\ zStringMin1(raw.programName)
    /\ zStringMin1(raw.programURL)
    /\ zStringOptional(raw.trackingLink)
    /\ zNumberIntOptional(raw.categoryId)
    /\ zStringOptional(raw.categoryName)
    /\ zStringOptional(raw.category)
    /\ zNumberIntOptional(raw.approvalStatus)
    /\ zNumberInt(raw.status)
    /\ zNumberIntOptional(raw.adId)

\* .replace(/&amp;/g, '&')
AMP_ENTITY == <<"&", "a", "m", "p", ";">>

\* the characters of str at the positions of `kept`, in their order
charsAt(str, kept) ==
    [k \in 1..Cardinality(kept) |->
        str[CHOOSE i \in kept : Cardinality({j \in kept : j <= i}) = k]]

\* .replace(/&amp;/g, '&'): of every entity only its first character stays
replaceAmpEntities(str) ==
    LET starts == {i \in 1..(Len(str) - Len(AMP_ENTITY) + 1) :
                      SubSeq(str, i, i + Len(AMP_ENTITY) - 1) = AMP_ENTITY}
        kept == {i \in 1..Len(str) :
                    ~\E st \in starts : st < i /\ i < st + Len(AMP_ENTITY)}
    IN charsAt(str, kept)

\* .replace(/\s+/g, ' '): a run of white space becomes one space
collapseWhiteSpace(str) ==
    LET spaced == [i \in 1..Len(str) |->
                      IF str[i] \in WhiteSpace THEN " " ELSE str[i]]
        kept == {i \in 1..Len(str) :
                    ~(i > 1 /\ str[i] \in WhiteSpace
                            /\ str[i - 1] \in WhiteSpace)}
    IN charsAt(spaced, kept)

\* fetch-utils.server (src/unnamed/part_008) lines 51-57
normalizeCategoryName(name) ==
    collapseWhiteSpace(replaceAmpEntities(toLowerCase(trim(name))))

\* Number.prototype.toString of a non-negative integer
Digits == <<"0", "1", "2", "3", "4", "5", "6", "7", "8", "9">>

RECURSIVE NumberToString(_)
NumberToString(n) ==
    IF n < 10 THEN <<Digits[n + 1]>>
    ELSE NumberToString(n \div 10) \o <<Digits[(n % 10) + 1]>>

\* encodeURIComponent: the characters of the model that it escapes
PercentEncoded ==
    (":" :> <<"%", "3", "A">>) @@ ("/" :> <<"%", "2", "F">>) @@
    (" " :> <<"%", "2", "0">>) @@ ("&" :> <<"%", "2", "6">>) @@
    (";" :> <<"%", "3", "B">>)

\* encodeURIComponent: character i of str comes out as one character or as
\* three, after what the characters before it came out as
encodeURIComponent(str) ==
    LET Escaped(i) == str[i] \in DOMAIN PercentEncoded
        Before(i) ==
            (i - 1) + 2 * Cardinality({j \in 1..(i - 1) : Escaped(j)})
        Width(i) == IF Escaped(i) THEN 3 ELSE 1
        Total == Before(Len(str) + 1)
    IN [k \in 1..Total |->
          LET i == CHOOSE i \in 1..Len(str) :
                      Before(i) < k /\ k <= Before(i) + Width(i)
          IN IF Escaped(i) THEN PercentEncoded[str[i]][k - Before(i)]
             ELSE str[i]]

TRACK_A ==
    <<"h", "t", "t", "p", "s", ":", "/", "/", "t", "r", "a", "c", "k", ".",
      "a", "d", "t", "r", "a", "c", "t", "i", "o", "n", ".", "c", "o", "m",
      "/", "t", "/", "t", "?", "a", "=">>
TRACK_AS == <<"&", "a", "s", "=">>
TRACK_URL ==
    <<"&", "t", "=", "2", "&", "u", "r", "l", "=">>

\* part_005 lines 306-308
trackingUrl(program) ==
    TRACK_A \o NumberToString(program.adId.number)
            \o TRACK_AS \o NumberToString(program.programId.number)
            \o TRACK_URL \o encodeURIComponent(program.programURL.chars)

NOT_AVAILABLE == <<"N", "/", "A">>
APPROVED == <<"a", "p", "p", "r", "o", "v", "e", "d">>
DIVERSE == <<"D", "i", "v", "e", "r", "s", "e">>

\* a filter that lets every validated record through
everyRecord(record) == TRUE

\* part_006 line 91
isApproved(merchant) ==
    merchant.programid.chars # NOT_AVAILABLE /\ merchant.status.chars = APPROVED

\* part_006 line 93
hasUrlAndLink(merchant) ==
    Truthy(merchant.programurl) /\ Truthy(merchant.affiliatelink)

\* part_005 line 277
isActive(program) == program.status.number = 0

\* part_005 line 279
hasUrlAndAdId(program) == Truthy(program.programURL) /\ Truthy(program.adId)

\* part_005 line 287
categoryNameOrDiverse(program) ==
    IF Truthy(program.categoryName) THEN program.categoryName.chars
    ELSE IF Truthy(program.category) THEN program.category.chars
    ELSE DIVERSE

\* the Merchant object of part_006 lines 115-123 and part_005 lines 312-320
MerchantObj(programid, programnavn, programurl, affiliatelink, kategoriid,
            status, source) ==
    [programid |-> programid, programnavn |-> programnavn,
     programurl |-> programurl, affiliatelink |-> affiliatelink,
     kategoriid |-> kategoriid, status |-> status, source |-> source]

\* part_006 lines 106-129, part_005 lines 295-326: categoriesMap and
\* merchantsByCategory, both keyed by categoryId and filled together, as one
\* list of categories in insertion order
AddMerchant(categories, categoryId, name, merchantObj) ==
    IF \E i \in 1..Len(categories) : categories[i].id = categoryId
    THEN [i \in 1..Len(categories) |->
            IF categories[i].id = categoryId
            THEN [categories[i] EXCEPT !.merchants = Append(@, merchantObj)]
            ELSE categories[i]]
    ELSE Append(categories, Category(categoryId, name, <<merchantObj>>))

\* part_006 lines 78-134: the loop, from the first of `records` on
RECURSIVE PartnerAdsLoop(_, _)
PartnerAdsLoop(records, categories) ==
    IF records = <<>>
    THEN categories
    ELSE LET merchant == Head(records)
         IN IF ~PartnerAdsXMLMerchantSchema(merchant)
            THEN PartnerAdsLoop(Tail(records), categories)
            ELSE IF isApproved(merchant) /\ hasUrlAndLink(merchant)
            THEN LET normalizedCategoryName ==
                         normalizeCategoryName(merchant.kategorinavn.chars)
                     categoryId ==
                         generateCategoryId(normalizedCategoryName, "partnerads")
                 IN PartnerAdsLoop(Tail(records),
                        AddMerchant(categories, categoryId,
                            normalizedCategoryName,
                            MerchantObj(merchant.programid.chars,
                                        merchant.programnavn.chars,
                                        merchant.programurl.chars,
                                        merchant.affiliatelink.chars,
                                        categoryId,
                                        merchant.status.chars,
                                        "partnerads")))
            ELSE PartnerAdsLoop(Tail(records), categories)

\* part_005 lines 263-328
RECURSIVE AdtractionLoop(_, _)
AdtractionLoop(records, categories) ==
    IF records = <<>>
    THEN categories
    ELSE LET program == Head(records)
         IN IF ~AdtractionProgramSchema(program)
            THEN AdtractionLoop(Tail(records), categories)
            ELSE IF isActive(program) /\ hasUrlAndAdId(program)
            THEN LET normalizedCategoryName ==
                         normalizeCategoryName(categoryNameOrDiverse(program))
                     categoryId ==
                         generateCategoryId(normalizedCategoryName, "adtraction")
                 IN AdtractionLoop(Tail(records),
                        AddMerchant(categories, categoryId,
                            normalizedCategoryName,
                            MerchantObj(NumberToString(program.programId.number),
                                        program.programName.chars,
                                        program.programURL.chars,
                                        trackingUrl(program),
                                        categoryId,
                                        APPROVED,
                                        "adtraction")))
            ELSE AdtractionLoop(Tail(records), categories)

\* part_006 lines 78-160: the fetch function, once the response is parsed
FetchPartnerAdsData ==
    /\ apiResponse.source = "partnerads"
    /\ fetcherReturn = NoCatalog
    /\ fetcherReturn' =
         [status |-> "returned",
          categories |-> sortById(PartnerAdsLoop(apiResponse.records, <<>>)),
          lastUpdated |-> now]
    /\ UNCHANGED apiResponse
    /\ UNCHANGED nonFetcherVars

\* part_005 lines 263-354
FetchAdtractionData ==
    /\ apiResponse.source = "adtraction"
    /\ fetcherReturn = NoCatalog
    /\ fetcherReturn' =
         [status |-> "returned",
          categories |-> sortById(AdtractionLoop(apiResponse.records, <<>>)),
          lastUpdated |-> now]
    /\ UNCHANGED apiResponse
    /\ UNCHANGED nonFetcherVars

\* category names as the networks write them
NAME_AMP_ENTITY == <<"o", "&", "a", "m", "p", ";", "e">>
NAME_AMP == <<"o", "&", "e">>
NAME_TWO_SPACES == <<"o", " ", " ", "e">>

PROGRAMID_101 == <<"1", "0", "1">>
KATEGORIID_42 == <<"4", "2">>
PENDING == <<"p", "e", "n", "d", "i", "n", "g">>
PROGRAMNAVN_HM == <<"H", "M">>
PARTNER_ADS_LINK ==
    <<"h", "t", "t", "p", "s", ":", "/", "/", "w", "w", "w", ".", "p", "a",
      "r", "t", "n", "e", "r", "-", "a", "d", "s", ".", "c", "o", "m", "/",
      "d", "k", "/", "k", "l", "i", "k">>

\* a record of the Partner-ads XML that ends up in the catalog
PartnerAdsRecord(kategorinavn) ==
    [programid |-> StringValue(PROGRAMID_101),
     programnavn |-> StringValue(PROGRAMNAVN_HM),
     programurl |-> StringValue(URL_HM),
     affiliatelink |-> StringValue(PARTNER_ADS_LINK),
     kategoriid |-> StringValue(KATEGORIID_42),
     kategorinavn |-> StringValue(kategorinavn),
     status |-> StringValue(APPROVED)]

\* records of all kinds: kept, with a value the parser made a number, with a
\* URL that is none, with a field missing or empty, not approved
PartnerAdsRecords ==
    {PartnerAdsRecord(name) :
        name \in {NAME_ORENG, NAME_ORENG_PADDED, NAME_AMP_ENTITY, NAME_AMP,
                  NAME_TWO_SPACES}}
    \cup {[PartnerAdsRecord(NAME_ORENG) EXCEPT !.programid = NumberValue(101)],
          [PartnerAdsRecord(NAME_ORENG) EXCEPT
              !.programurl = StringValue(URL_ZALANDO_BARE_WWW)],
          [PartnerAdsRecord(NAME_ORENG) EXCEPT !.programurl = StringValue(<<>>)],
          [PartnerAdsRecord(NAME_ORENG) EXCEPT !.affiliatelink = Absent],
          [PartnerAdsRecord(NAME_ORENG) EXCEPT !.kategorinavn = StringValue(<<>>)],
          [PartnerAdsRecord(NAME_ORENG) EXCEPT
              !.programid = StringValue(NOT_AVAILABLE)],
          [PartnerAdsRecord(NAME_ORENG) EXCEPT !.status = StringValue(PENDING)]}

\* a program of the Adtraction JSON that ends up in the catalog
AdtractionRecord(name, category) ==
    [programId |-> NumberValue(678),
     programName |-> StringValue(PROGRAMNAVN_HM),
     programURL |-> StringValue(URL_HM),
     trackingLink |-> Absent,
     categoryId |-> Absent,
     categoryName |-> name,
     category |-> category,
     approvalStatus |-> Absent,
     status |-> NumberValue(0),
     adId |-> NumberValue(123)]

AdtractionRecords ==
    {AdtractionRecord(StringValue(NAME_ORENG_PADDED), Absent),
     AdtractionRecord(StringValue(NAME_AMP_ENTITY), StringValue(NAME_ORENG)),
     AdtractionRecord(StringValue(<<>>), StringValue(NAME_ORENG)),
     AdtractionRecord(Absent, StringValue(NAME_TWO_SPACES)),
     AdtractionRecord(Absent, Absent),
     AdtractionRecord(StringValue(<<>>), StringValue(<<>>))}
    \cup {[AdtractionRecord(StringValue(NAME_ORENG), Absent) EXCEPT
              !.programId = StringValue(PROGRAMID_101)],
          [AdtractionRecord(StringValue(NAME_ORENG), Absent) EXCEPT
              !.programURL = StringValue(<<>>)],
          [AdtractionRecord(StringValue(NAME_ORENG), Absent) EXCEPT
              !.programURL = Absent],
          [AdtractionRecord(StringValue(NAME_ORENG), Absent) EXCEPT
              !.adId = Absent],
          [AdtractionRecord(StringValue(NAME_ORENG), Absent) EXCEPT
              !.adId = NumberValue(0)],
          [AdtractionRecord(StringValue(NAME_ORENG), Absent) EXCEPT
              !.status = NumberValue(1)],
          [AdtractionRecord(StringValue(NAME_ORENG), Absent) EXCEPT
              !.categoryName = NumberValue(7)]}

\* the API of one of the networks has answered
InitFetchers ==
    /\ store = [k \in CACHE_KEYS |-> NoEntry]
    /\ now \in 0..MaxTime
    /\ InitRest
    /\ SchedulerAtLoad
    /\ NothingMerged
    /\ NoIdsAsked
    /\ NotRetrying
    /\ LoaderIdle
    /\ fetcherReturn = NoCatalog
    /\ apiResponse \in
         {[source |-> "partnerads", records |-> records] :
             records \in SeqsUpTo(PartnerAdsRecords, MaxRecords)}
         \cup {[source |-> "adtraction", records |-> records] :
                  records \in SeqsUpTo(AdtractionRecords, MaxRecords)}

NextFetchers == FetchPartnerAdsData \/ FetchAdtractionData

SpecFetchers == InitFetchers /\ [][NextFetchers]_vars

----------------------------------------------------------------------------
(* C32: records that are dropped, and the catalog of the others            *)

\* the fetch function has returned its catalog
FetchReturned == fetcherReturn.status = "returned"

\* a value that is missing or empty
Lacking(value) ==
    \/ value = Absent
    \/ value = StringValue(<<>>)
    \/ value = NumberValue(0)

\* the record passes validation and the business filter and has both its URL
\* and its affiliate identifier
Remains(record) ==
    IF apiResponse.source = "partnerads"
    THEN /\ PartnerAdsXMLMerchantSchema(record)
         /\ isApproved(record)
         /\ ~Lacking(record.programurl)
         /\ ~Lacking(record.affiliatelink)
    ELSE /\ AdtractionProgramSchema(record)
         /\ isActive(record)
         /\ ~Lacking(record.programURL)
         /\ ~Lacking(record.adId)

RemainingRecords == SelectSeq(apiResponse.records, Remains)

\* generateCategoryId of the normalized category name of a remaining record
ExpectedKategoriid(record) ==
    IF apiResponse.source = "partnerads"
    THEN generateCategoryId(normalizeCategoryName(record.kategorinavn.chars),
                            "partnerads")
    ELSE generateCategoryId(
             normalizeCategoryName(
                 IF ~Lacking(record.categoryName) THEN record.categoryName.chars
                 ELSE IF ~Lacking(record.category) THEN record.category.chars
                 ELSE DIVERSE),
             "adtraction")

\* URL, category id and source of the merchant a remaining record becomes
ExpectedMerchant(record) ==
    <<IF apiResponse.source = "partnerads" THEN record.programurl.chars
      ELSE record.programURL.chars,
      ExpectedKategoriid(record),
      apiResponse.source>>

\* the remaining records of the category with this id, in their order
RemainingIn(id) ==
    LET InCategory(record) == ExpectedKategoriid(record) = id
    IN SelectSeq(RemainingRecords, InCategory)

\* C32: when a source fetcher has returned, the catalog holds one category
\* for every category id of the records that passed validation, the business
\* filter and the check of URL and affiliate identifier, and the merchants of
\* a category are exactly those records, in their order, each with kategoriid
\* equal to generateCategoryId of its normalized category name ('Diverse'
\* where an Adtraction record names no category); the other records are left
\* out and the fetch returns all the same.
C32_CatalogOfExactlyTheRemainingRecords ==
    FetchReturned =>
        LET categories == fetcherReturn.categories
        IN /\ {categories[c].id : c \in 1..Len(categories)}
                = {ExpectedKategoriid(RemainingRecords[i]) :
                      i \in 1..Len(RemainingRecords)}
           /\ \A c, d \in 1..Len(categories) :
                 categories[c].id = categories[d].id => c = d
           /\ \A c \in 1..Len(categories) :
                 [j \in 1..Len(categories[c].merchants) |->
                     <<categories[c].merchants[j].programurl,
                       categories[c].merchants[j].kategoriid,
                       categories[c].merchants[j].source>>]
                 = [j \in 1..Len(RemainingIn(categories[c].id)) |->
                       ExpectedMerchant(RemainingIn(categories[c].id)[j])]

\* a batch of Adtraction programs of which one was dropped and one, that
\* names no category, is in the catalog under the id of 'diverse'
C32_RecordDroppedOtherKeptAsDiverse ==
    /\ FetchReturned
    /\ apiResponse.source = "adtraction"
    /\ Len(apiResponse.records) = 2
    /\ Len(RemainingRecords) = 1
    /\ Lacking(RemainingRecords[1].categoryName)
    /\ Lacking(RemainingRecords[1].category)
    /\ Len(fetcherReturn.categories) = 1
    /\ fetcherReturn.categories[1].id
         = generateCategoryId(toLowerCase(DIVERSE), "adtraction")
    /\ Len(fetcherReturn.categories[1].merchants) = 1

----------------------------------------------------------------------------
(* The refresh lock: forced refreshes, stale reads with their background   *)
(* refreshes and the clock, over a run of MaxRequests calls                *)

\* lines 331-348
RequestForceRefreshCache(p, k) ==
    /\ MayRequest(p)
    /\ nCalls' = nCalls + 1
    /\ IF k \in refreshLocks
       THEN /\ calls' = [calls EXCEPT ![p] =
                           [NewCall("forceRefreshCache", k, "force_poll")
                              EXCEPT !.waited = TRUE]]
            /\ UNCHANGED <<refreshLocks, fetchCount>>
       ELSE AcquireAndFetch(p, NewCall("forceRefreshCache", k, "idle"), k)
    /\ UNCHANGED <<store, now, inFlightRequests, metrics, bg, bgStarted,
                   bgFailed>>
    /\ UNCHANGED nonCacheVars

\* the steps of forceRefreshCache call p after its first
ForceRefreshCacheStep(p) ==
    \/ ForceRefreshCachePollExit(p)
    \/ ForceRefreshCacheRead(p)
    \/ \E d \in FetchResults : ForceRefreshCacheResolve(p, d)
    \/ ForceRefreshCacheReject(p)
    \/ ForceRefreshCacheStored(p)

\* the run goes on past MaxRequests calls: the counts kept of the calls, of
\* the fetches and of the background refreshes start again.  They do so when
\* no call but a polling one and no background refresh is in progress, in
\* runs in which `metrics` has counted nothing, which keeps the states
\* finite.
MoreRequests ==
    /\ nCalls = MaxRequests
    /\ metrics = InitMetrics
    /\ \A p \in Procs : Free(p) \/ calls[p].pc = "force_poll"
    /\ \A b \in Procs : bg[b].pc = "idle"
    /\ nCalls' = 0
    /\ fetchCount' = [k \in CACHE_KEYS |-> 0]
    /\ bgStarted' = [k \in CACHE_KEYS |-> 0]
    /\ bgFailed' = [k \in CACHE_KEYS |-> 0]
    /\ UNCHANGED <<store, now, inFlightRequests, refreshLocks, metrics, calls,
                   bg>>
    /\ UNCHANGED nonCacheVars

NextRefresh ==
    \/ \E p \in Procs, k \in CACHE_KEYS : RequestForceRefreshCache(p, k)
    \/ MoreRequests
    \/ \E p \in Procs, k \in CACHE_KEYS : RequestGetCachedOrFetchStale(p, k)
    \/ \E p \in Procs : ForceRefreshCacheStep(p)
    \/ \E p \in Procs : GetCachedOrFetchStaleRead1(p)
    \/ \E p \in Procs : GetCachedOrFetchStaleRead2(p)
    \/ \E p \in Procs : GetCachedOrFetchRead(p)
    \/ \E p \in Procs, d \in FetchResults : GetCachedOrFetchResolve(p, d)
    \/ \E p \in Procs : GetCachedOrFetchReject(p)
    \/ \E p \in Procs : GetCachedOrFetchStored(p)
    \/ RefreshInBackgroundStep
    \/ Tick

\* every fetchFn settles, every cache read and write completes and the
\* 100 ms timer of a polling call fires again and again
SpecRefresh ==
    /\ Init
    /\ [][NextRefresh]_vars
    /\ WF_vars(RefreshInBackgroundStep)
    /\ \A p \in Procs : WF_vars(ForceRefreshCacheStep(p))

\* forceRefreshCache call p is between its `refreshLocks.add` and its `finally`
ForcedRefreshRunning(p, k) ==
    calls[p].pc \in {"force_fetch", "force_store"} /\ calls[p].key = k

\* a forced or a background refresh of key k is in progress
RefreshInProgress(k) ==
    \/ \E p \in Procs : ForcedRefreshRunning(p, k)
    \/ BackgroundRefreshRunning(k)

\* line 384
isRefreshing(k) == k \in refreshLocks

\* C33: in every state the refresh lock of a key is held exactly when a
\* forced or a background refresh of the key is in progress, so that
\* isRefreshing(key) tells whether one is.
C33_LockHeldIffRefreshInProgress ==
    \A k \in CACHE_KEYS : isRefreshing(k) <=> RefreshInProgress(k)

----------------------------------------------------------------------------
(* C34: a refresh whose fetch fails                                        *)

\* the fetchFn of forceRefreshCache call p fails in this step
ForcedFetchFails(p) ==
    /\ calls[p].pc = "force_fetch"
    /\ calls'[p].pc \notin {"force_fetch", "force_store"}

\* the fetchFn of background refresh b fails in this step
BackgroundFetchFails(b) ==
    /\ bg[b].pc = "fetch"
    /\ bg'[b].pc \notin {"fetch", "store"}

\* the step leaves the entry of key k and the refresh metrics alone and
\* ends with the lock of k free
EntryAndRefreshMetricsKept(k) ==
    /\ store'[k] = store[k]
    /\ metrics'.refreshes = metrics.refreshes
    /\ metrics'.lastRefresh = metrics.lastRefresh
    /\ k \notin refreshLocks'

\* C34: the step in which fetchFn fails inside forceRefreshCache or inside
\* a background refresh leaves the key's cache entry and the refreshes and
\* lastRefresh metrics as they were and leaves the refresh lock free; the
\* forceRefreshCache call ends in that step with the error thrown to its
\* caller.
C34_FailedRefreshChangesNothing ==
    [][/\ \A p \in Procs :
             ForcedFetchFails(p)
             => /\ EntryAndRefreshMetricsKept(calls[p].key)
                /\ calls'[p].pc = "done"
                /\ calls'[p].ret = FetchError
       /\ \A b \in Procs :
             BackgroundFetchFails(b) => EntryAndRefreshMetricsKept(bg[b].key)
      ]_vars

\* a forced refresh and a background refresh of a key have failed, the
\* forced one has thrown, and the key still holds the entry it had with no
\* refresh counted and the lock free
C34_BothRefreshesFailedEntryKept ==
    \E p \in Procs :
        LET k == calls[p].key
        IN /\ calls[p].op = "forceRefreshCache"
           /\ calls[p].pc = "done"
           /\ calls[p].fetched
           /\ calls[p].ret = FetchError
           /\ bgFailed[k] > 0
           /\ store[k].data = OldData
           /\ metrics.refreshes = 0
           /\ k \notin refreshLocks
           /\ ~RefreshInProgress(k)

----------------------------------------------------------------------------
(* C35: the polling wait of forceRefreshCache                              *)

\* forceRefreshCache call p found the lock held and is in its polling loop
PollingForLock(p) ==
    calls[p].op = "forceRefreshCache" /\ calls[p].pc = "force_poll"

\* call p has returned or thrown
ReturnedOrThrew(p) == calls[p].pc = "done"

\* a forced or a background refresh of some key starts in this step
RefreshStarts ==
    \E k \in CACHE_KEYS :
        \/ \E p \in Procs :
              ~ForcedRefreshRunning(p, k) /\ ForcedRefreshRunning(p, k)'
        \/ \E b \in Procs :
              bg[b].pc = "idle" /\ bg'[b].pc = "fetch" /\ bg'[b].key = k

\* C35 as stated: a forceRefreshCache call that found the refresh lock held
\* and polls for it eventually returns or throws, whatever forced and
\* background refreshes of the key run meanwhile, given that every fetch
\* settles, every cache read and write completes and the poll timer keeps
\* firing.
C35_PollingCallEventuallyEnds ==
    \A p \in Procs : PollingForLock(p) ~> ReturnedOrThrew(p)

\* C35 as amended: the polling call eventually returns or throws in every
\* run in which, from some time on, no further refresh is started.
C35_PollingCallEndsOnceRefreshesStop ==
    <>[][~RefreshStarts]_vars
    => \A p \in Procs : PollingForLock(p) ~> ReturnedOrThrew(p)

\* a forceRefreshCache call that had to poll has ended, after two other
\* refreshes of the key were started while it was being called and waiting
C35_PolledThroughTwoRefreshesAndEnded ==
    \E p \in Procs :
        /\ calls[p].op = "forceRefreshCache"
        /\ calls[p].waited
        /\ ~calls[p].fetched
        /\ ReturnedOrThrew(p)
        /\ fetchCount[calls[p].key] = 2
        /\ nCalls = MaxRequests

----------------------------------------------------------------------------
(* C36: what getRefreshStatus says of the retry                            *)

\* lines 169-178, without the two dates
getRefreshStatus ==
    [retryScheduled |-> retryTimeout # NoTimeout,
     consecutiveFailures |-> consecutiveFailures,
     maxRetries |-> MAX_CONSECUTIVE_RETRIES,
     isInitialized |-> isInitialized]

\* a retry timer is set and has neither fired nor been cleared
RetryTimerPending == pendingTimeouts # {}

\* C36: whenever no run of executeRefresh is in progress,
\* getRefreshStatus().retryScheduled is true exactly when a retry timer is
\* pending; so it is false once a retry timer has fired and its run has
\* ended without scheduling a new retry.
C36_RetryScheduledIffTimerPending ==
    RunsInProgress = 0
    => (getRefreshStatus.retryScheduled <=> RetryTimerPending)

----------------------------------------------------------------------------
(* C37: the failure count between runs                                     *)

\* a run of executeRefresh has completed
SomeRunCompleted == lastRun.source \in Sources

\* C37: whenever no run of executeRefresh is in progress the count of
\* consecutive failures is one of 0..MAX_CONSECUTIVE_RETRIES - 1, and it is
\* above 0 only if a run has completed and the one that completed last
\* failed, whatever the order in which cron, retry and manual runs start and
\* end.
C37_FailureCountBetweenRuns ==
    RunsInProgress = 0
    => /\ consecutiveFailures \in 0..(MAX_CONSECUTIVE_RETRIES - 1)
       /\ consecutiveFailures > 0 => (SomeRunCompleted /\ ~lastRun.ok)

\* no run is in progress, the last to complete was a retry run that failed,
\* the count stands at its highest and a further retry is pending
C37_CountAtFourAfterFailedRetry ==
    /\ RunsInProgress = 0
    /\ consecutiveFailures = MAX_CONSECUTIVE_RETRIES - 1
    /\ lastRun = [source |-> "retry", ok |-> FALSE]
    /\ RetryTimerPending

----------------------------------------------------------------------------
(* C38: after stopCronJobs                                                 *)

\* stopCronJobs was the last of initializeCronJobs and stopCronJobs to be
\* called
Stopped == stopped

\* C38: while the scheduler is stopped, from stopCronJobs until
\* initializeCronJobs is called again, no retry timer is pending and no
\* refresh run is started by a timer, also when a run that was in progress
\* at the call of stopCronJobs fails afterwards.
C38_NoTimerAfterStop ==
    /\ [](Stopped => ~RetryTimerPending)
    /\ [][Stopped => (running'["retry"] <= running["retry"]
                      /\ running'["cron"] <= running["cron"])]_vars

----------------------------------------------------------------------------
(* C39: the ids of the categories returned                                 *)

\* in the catalogs given, categories have the same id exactly when they
\* have the same normalized name
IdsFollowNames ==
    \A c, d \in 1..Len(InputCategories) :
        (InputCategories[c].id = InputCategories[d].id)
        <=> (NormalizedName(InputCategories[c].name)
               = NormalizedName(InputCategories[d].name))

====
